---- MODULE Spec2Model ----
(***************************************************************************)
(* A state-machine model of MEMORY_P's batch core: the parallel processing *)
(* engine (src/src/parallel_engine.rs), the memoized analyzer              *)
(* (src/src/analyzer.rs) and the workflow engine with its Evolve loop.     *)
(*                                                                         *)
(* Text is modelled as a sequence of lexical tokens; every token has the   *)
(* byte length of the text it stands for, so that size tests keep the      *)
(* program's thresholds.                                                   *)
(***************************************************************************)
EXTENDS Integers, Sequences, FiniteSets, TLC

VARIABLES
    api,        \* the entry point this run exercises
    files,      \* the filesystem: path -> [kind, content, mtime, writable]
    engine,     \* UltraParallelEngine: [config, processed_count, total_bytes]
    call,       \* the request being served (its arguments)
    workers,    \* the parallel tasks of the ultra_edit call in flight
    ret,        \* what the last call returned
    cache,      \* ANALYSIS_CACHE: path -> the entries stored under it (none or one)
    hist,       \* history: per path, what has happened to the file so far
    wf          \* ultra_workflow's locals while a workflow runs

vars == <<api, files, engine, call, workers, ret, cache, hist, wf>>

-----------------------------------------------------------------------------
(* Bounds of the model *)

\* longest pattern a batch is built from (the pattern is repeated)
MaxBase == 2
\* chunk sizes 0..MaxChunk are tried besides the default
MaxChunk == 1
\* the large-file threshold the runs are configured with (bytes)
SmallThreshold == 8
\* longest text (in tokens) an edit may grow a file to
MaxLen == 3
\* most FileChanges in one ultra_edit call
MaxChanges == 2
\* modification timestamps are 1..MaxTime
MaxTime == 2
\* most analyze_file calls and modifications in a run
MaxOps == 4
\* most steps of a workflow after its first scan
MaxSteps == 1
\* the iteration caps 0..MaxIter are tried besides the default
MaxIter == 1
\* most paths in one ultra_delete call
MaxDelete == 2
\* most operations in the FileChange of a call that is repeated
MaxEditOps == 2
\* most times a call is issued
MaxCalls == 2
\* longest text (in tokens) of a file to repair
MaxText == 4
\* longest list of warnings scored
MaxWarnings == 5
\* most steps of a workflow whose steps come in any order
MaxPipeline == 3

-----------------------------------------------------------------------------
(* Program constants *)

\* process_files: batches shorter than this are mapped item by item
DirectLimit == 256
\* ParallelConfig::default().chunk_size
DefaultChunkSize == 100
\* ParallelConfig::default()._large_file_threshold = 10 * 1024 * 1024
DefaultLargeFileThreshold == 10485760
\* detect_warnings: .clone() is heavy in a file longer than this
HeavyCloneBytes == 5000
\* calculate_security_score: the score of a file without warnings
FullScore == 100
\* calculate_security_score: the penalty of a warning that is neither a
\* secret nor an unsafe block
MinorPenalty == 5
\* calculate_security_score: the penalty of an exposed secret
SecretPenalty == 25
\* calculate_security_score: the penalty of an unsafe block
UnsafePenalty == 15
\* estimate_complexity's base 1.0, in tenths
BaseComplexity == 10
\* the Analyze step reports a security score below this
LowScore == 80
\* Evolve: max_iterations.unwrap_or(5)
DefaultMaxIterations == 5

-----------------------------------------------------------------------------
(* Text: a sequence of tokens *)

NL == "\n"
CR == "\r"
SP == " "
TokUnwrap == "unwrap()"
TokClone == ".clone()"
TokVecNew == "Vec::new()"
TokWithCap == "with_capacity"
TokUseA == "use a;"
TokUseB == "use b;"
TokTodo == "TODO"
TokFill == "FILL"
TokX == "x"
TokComment == "//"
TokFn == "fn f"
TokIfParen == "if ("
TokIfBare == "if c {"
TokElse == "else"
TokMatch == "match"
TokFor == "for "
TokWhile == "while "
TokUnsafe == "unsafe {"
TokStaticMut == "static mut"
TokEval == "eval("
TokPickle == "pickle.load"
TokPassword == "password ="
\* AIza and 35 characters of a key
TokGoogleKey == "AIza..."
\* sk- and 48 characters of a key
TokOpenAIKey == "sk-..."

\* byte length of the text a token stands for
TokLen(t) ==
    CASE t = NL -> 1
      [] t = SP -> 1
      [] t = CR -> 1
      [] t = TokUnwrap -> 8
      [] t = TokClone -> 8
      [] t = TokVecNew -> 10
      [] t = TokWithCap -> 13
      [] t = TokUseA -> 6
      [] t = TokUseB -> 6
      [] t = TokTodo -> 4
      [] t = TokFill -> 4990
      [] t = TokComment -> 2
      [] t = TokFn -> 4
      [] t = TokIfParen -> 4
      [] t = TokIfBare -> 6
      [] t = TokElse -> 4
      [] t = TokMatch -> 5
      [] t = TokFor -> 4
      [] t = TokWhile -> 6
      [] t = TokUnsafe -> 8
      [] t = TokStaticMut -> 10
      [] t = TokEval -> 5
      [] t = TokPickle -> 11
      [] t = TokPassword -> 10
      [] t = TokGoogleKey -> 39
      [] t = TokOpenAIKey -> 51
      [] OTHER -> 1

RECURSIVE Bytes(_)
\* str::len
Bytes(s) == IF s = <<>> THEN 0 ELSE TokLen(Head(s)) + Bytes(Tail(s))

\* s has t at position i
MatchAt(s, t, i) ==
    /\ i + Len(t) - 1 <= Len(s)
    /\ \A k \in 1..Len(t) : s[i + k - 1] = t[k]

\* str::contains
Contains(s, t) == \E i \in 1..(Len(s) + 1) : MatchAt(s, t, i)

RECURSIVE ReplaceFrom(_, _, _, _)
ReplaceFrom(s, t, r, i) ==
    IF i > Len(s) THEN <<>>
    ELSE IF MatchAt(s, t, i) THEN r \o ReplaceFrom(s, t, r, i + Len(t))
    ELSE <<s[i]>> \o ReplaceFrom(s, t, r, i + 1)

RECURSIVE Interleave(_, _)
Interleave(s, r) == IF s = <<>> THEN r ELSE r \o <<Head(s)>> \o Interleave(Tail(s), r)

\* a replacement of the first match only
ReplaceFirst(s, t, r) ==
    IF Contains(s, t)
    THEN LET i == CHOOSE k \in 1..(Len(s) + 1) :
                     MatchAt(s, t, k) /\ \A j \in 1..(k - 1) : ~MatchAt(s, t, j)
         IN SubSeq(s, 1, i - 1) \o r \o SubSeq(s, i + Len(t), Len(s))
    ELSE s

\* str::replace: every non-overlapping match, left to right; an empty
\* target matches at every boundary
ReplaceAll(s, t, r) == IF t = <<>> THEN Interleave(s, r) ELSE ReplaceFrom(s, t, r, 1)

-----------------------------------------------------------------------------
(* The filesystem *)

Paths == {"a.rs", "b.rs"}

\* missing: no such file; orphan: no such file, and its parent directory
\* cannot be created; denied: cannot be opened; nomap: cannot be mapped;
\* binary: not valid UTF-8; text: a readable text file
Kinds == {"missing", "orphan", "denied", "nomap", "binary", "text"}

NoFile == [kind |-> "missing", content |-> <<>>, mtime |-> 0, writable |-> TRUE]

TextFile(c, t) == [kind |-> "text", content |-> c, mtime |-> t, writable |-> TRUE]

\* Path::exists
Exists(fs, p) == fs[p].kind \notin {"missing", "orphan"}

\* fs::metadata(path).len()
FileSize(fs, p) == Bytes(fs[p].content)

\* fs::read_to_string succeeds
CanReadToString(fs, p) == fs[p].kind \in {"nomap", "text"}

-----------------------------------------------------------------------------
(* ProcessingResult / ProcessingStats *)

Statuses == {"Success", "Warning", "Error", "Skipped"}

Result(p, st, f) == [path |-> p, status |-> st, findings |-> f]

\* results.iter().filter(|r| r.status == st).count()
CountStatus(rs, st) == Cardinality({i \in 1..Len(rs) : rs[i].status = st})

DefaultStats ==
    [total_files |-> 0, successful |-> 0, errors |-> 0, warnings |-> 0,
     skipped |-> 0, total_bytes |-> 0]

-----------------------------------------------------------------------------
(* UltraParallelEngine *)

ChunkSizes == (0..MaxChunk) \cup {DefaultChunkSize}

\* the configurations tried (memory_p.toml sets both fields)
Configs == [chunk_size : ChunkSizes, large_file_threshold : {SmallThreshold}]

DefaultConfig ==
    [chunk_size |-> DefaultChunkSize, large_file_threshold |-> DefaultLargeFileThreshold]

\* UltraParallelEngine::new
NewEngine(cfg) == [config |-> cfg, processed_count |-> 0, total_bytes |-> 0]

\* what the per-file operation returns: Ok((msg, status)) or Err(msg); a
\* message is the sequence of the parts the operation joins
OpOk(msg, st) == [ok |-> TRUE, msg |-> msg, status |-> st]
OpErr(msg) == [ok |-> FALSE, msg |-> msg, status |-> "Error"]

\* the read of process_one reaches the operation
ReachesOperation(fs, cfg, p) ==
    /\ Exists(fs, p)
    /\ IF FileSize(fs, p) > cfg.large_file_threshold
       THEN fs[p].kind = "text"
       ELSE CanReadToString(fs, p)

\* the closure process_one of process_files; op maps a path to the outcome
\* of operation(path, content)
process_one(fs, cfg, op, p) ==
    IF ~Exists(fs, p) THEN Result(p, "Error", << <<"Stat Error">> >>)
    ELSE IF FileSize(fs, p) > cfg.large_file_threshold
    THEN CASE fs[p].kind = "denied" -> Result(p, "Error", << <<"Open Error">> >>)
           [] fs[p].kind = "nomap" -> Result(p, "Error", << <<"Mmap Error">> >>)
           [] fs[p].kind = "binary" -> Result(p, "Error", << <<"Binary file detected">> >>)
           [] OTHER ->
                IF op[p].ok THEN Result(p, op[p].status, <<op[p].msg>>)
                ELSE Result(p, "Error", << <<"Error">> \o op[p].msg >>)
    ELSE IF CanReadToString(fs, p)
         THEN IF op[p].ok THEN Result(p, op[p].status, <<op[p].msg>>)
              ELSE Result(p, "Error", << <<"Error">> \o op[p].msg >>)
         ELSE Result(p, "Error", << <<"IO Error">> >>)

\* paths.par_iter().map(process_one).collect()
DirectFanOut(fs, cfg, op, paths) ==
    [i \in 1..Len(paths) |-> process_one(fs, cfg, op, paths[i])] \o <<>>

\* the function f with every value computed
Tabulated(f) == f @@ f

Min(a, b) == IF a < b THEN a ELSE b
Max(a, b) == IF a > b THEN a ELSE b

\* slice::par_chunks_exact(n): the items after the last full chunk are left out
par_chunks_exact(paths, n) ==
    [k \in 1..(Len(paths) \div n) |-> SubSeq(paths, (k - 1) * n + 1, k * n)]

\* slice::par_chunks(n): consecutive chunks of n items, the last one shorter
par_chunks(paths, n) ==
    [k \in 1..((Len(paths) + n - 1) \div n) |->
        SubSeq(paths, (k - 1) * n + 1, Min(k * n, Len(paths)))]

RECURSIVE Flatten(_)
\* the concatenation of the sequences of ss, in order
Flatten(ss) ==
    IF ss = <<>> THEN <<>>
    ELSE IF Len(ss) = 1 THEN ss[1]
    ELSE LET h == Len(ss) \div 2
         IN Flatten(SubSeq(ss, 1, h)) \o Flatten(SubSeq(ss, h + 1, Len(ss)))

\* paths.par_chunks(chunk_size.max(1)).flat_map(|chunk| chunk.par_iter().map(process_one))
ChunkedFanOut(fs, cfg, op, paths) ==
    LET chunks == par_chunks(paths, Max(cfg.chunk_size, 1))
    IN Flatten([k \in 1..Len(chunks) |-> DirectFanOut(fs, cfg, op, chunks[k])])

\* a fan-out that gives up at the first failing file
FanOutAborting(fs, cfg, op, paths) ==
    LET all == DirectFanOut(fs, cfg, op, paths)
        bad == {i \in 1..Len(all) : all[i].status = "Error"}
    IN IF bad = {} THEN all
       ELSE SubSeq(all, 1, CHOOSE i \in bad : \A j \in bad : i <= j)

FanOut(fs, cfg, op, paths) ==
    IF Len(paths) < DirectLimit
    THEN DirectFanOut(fs, cfg, op, paths)
    ELSE ChunkedFanOut(fs, cfg, op, paths)

\* the items of a sequence
Range(rs) == {rs[i] : i \in 1..Len(rs)}

\* how many times p is in the batch
Occurrences(paths, p) == Cardinality({i \in 1..Len(paths) : paths[i] = p})

RECURSIVE SumSet(_, _)
SumSet(S, g) ==
    IF S = {} THEN 0
    ELSE LET x == CHOOSE y \in S : TRUE IN g[x] + SumSet(S \ {x}, g)

\* sum of f[paths[i]] over the batch
SumOver(paths, f) == SumSet(Paths, [p \in Paths |-> f[p] * Occurrences(paths, p)])

\* the fetch_adds of one batch on total_bytes: process_one adds the size of
\* every file it read, before it invokes the operation
BytesAdded(fs, cfg, paths) ==
    SumOver(paths, [p \in Paths |-> IF ReachesOperation(fs, cfg, p) THEN FileSize(fs, p) ELSE 0])

\* the fetch_adds of one batch on processed_count
ProcessedAdded(fs, cfg, op, paths) ==
    SumOver(paths, [p \in Paths |-> IF ReachesOperation(fs, cfg, p) /\ op[p].ok THEN 1 ELSE 0])

\* stats that leave warnings at its default, as ultra_edit's do
StatsWithoutWarnings(results, bytes) ==
    [total_files |-> Len(results),
     successful |-> CountStatus(results, "Success"),
     warnings |-> 0,
     errors |-> CountStatus(results, "Error"),
     skipped |-> CountStatus(results, "Skipped"),
     total_bytes |-> bytes]

\* the ProcessingStats process_files builds from the results
StatsOf(results, bytes) ==
    [total_files |-> Len(results),
     successful |-> CountStatus(results, "Success"),
     warnings |-> CountStatus(results, "Warning"),
     errors |-> CountStatus(results, "Error"),
     skipped |-> CountStatus(results, "Skipped"),
     total_bytes |-> bytes]

\* UltraParallelEngine::process_files: the results, the stats and the engine
\* with its counters advanced
process_files(fs, eng, op, paths) ==
    CHOOSE r \in
      {[results |-> results,
        stats |-> StatsOf(results, bytes),
        engine |-> [eng EXCEPT !.total_bytes = bytes, !.processed_count = @ + processed]]
       : results \in {FanOut(fs, eng.config, op, paths)},
         bytes \in {eng.total_bytes + BytesAdded(fs, eng.config, paths)},
         processed \in {ProcessedAdded(fs, eng.config, op, paths)}}
      : TRUE

-----------------------------------------------------------------------------
(* ultra_edit *)

OpReplace(t, r) == [type |-> "Replace", target |-> t, replacement |-> r]
OpAppend(c) == [type |-> "Append", content |-> c]
\* a pattern is malformed or is a literal
OpRegexReplace(valid, lit, r) ==
    [type |-> "RegexReplace", valid |-> valid, pattern |-> lit, replacement |-> r]

\* an iteration that counts an operation whose pattern is malformed
apply_op_counting_malformed(acc, op) ==
    CASE op.type = "Replace" ->
            IF Contains(acc.content, op.target)
            THEN [content |-> ReplaceAll(acc.content, op.target, op.replacement),
                  applied |-> acc.applied + 1]
            ELSE acc
      [] op.type = "Append" ->
            [content |-> acc.content \o op.content, applied |-> acc.applied + 1]
      [] OTHER ->
            IF op.valid
            THEN LET new_content == ReplaceAll(acc.content, op.pattern, op.replacement)
                 IN IF new_content # acc.content
                    THEN [content |-> new_content, applied |-> acc.applied + 1]
                    ELSE acc
            ELSE [acc EXCEPT !.applied = @ + 1]

\* one iteration of `for op in &change.operations`; acc = [content, applied]
apply_op(acc, op) ==
    CASE op.type = "Replace" ->
            IF Contains(acc.content, op.target)
            THEN [content |-> ReplaceAll(acc.content, op.target, op.replacement),
                  applied |-> acc.applied + 1]
            ELSE acc
      [] op.type = "Append" ->
            [content |-> acc.content \o op.content, applied |-> acc.applied + 1]
      [] OTHER ->
            IF op.valid
            THEN LET new_content == ReplaceAll(acc.content, op.pattern, op.replacement)
                 IN IF new_content # acc.content
                    THEN [content |-> new_content, applied |-> acc.applied + 1]
                    ELSE acc
            ELSE acc

RECURSIVE apply_ops(_, _)
apply_ops(acc, ops) ==
    IF ops = <<>> THEN acc ELSE apply_ops(apply_op(acc, Head(ops)), Tail(ops))

\* a write that truncates the file and stops there
WriteTruncated(fs, p, c) ==
    [fs EXCEPT ![p] = [kind |-> "text", content |-> <<>>, mtime |-> fs[p].mtime + 1,
                       writable |-> TRUE]]

\* fs::write(path, content) on a file that can be written
WriteFile(fs, p, c) ==
    [fs EXCEPT ![p] = [kind |-> "text", content |-> c, mtime |-> fs[p].mtime + 1,
                       writable |-> TRUE]]

\* the ProcessingStats ultra_edit builds: warnings is left at its default
EditStatsOf(results) ==
    [total_files |-> Len(results),
     successful |-> CountStatus(results, "Success"),
     errors |-> CountStatus(results, "Error"),
     skipped |-> CountStatus(results, "Skipped"),
     warnings |-> DefaultStats.warnings,
     total_bytes |-> DefaultStats.total_bytes]

\* format!("{}", n) of a small count
Digits(n) == IF n \in 0..9 THEN <<"0", "1", "2", "3", "4", "5", "6", "7", "8", "9">>[n + 1]
             ELSE "many"

NoCall == [fn |-> "none"]
NoRet == [fn |-> "none"]

Worker(pc, buf, applied, result) ==
    [pc |-> pc, content |-> buf, applied |-> applied, result |-> result]

NoResult == Result("", "Skipped", <<>>)

\* ultra_edit is called: one task per FileChange
EditBegin(changes, dry_run) ==
    /\ api = "ultra_edit"
    /\ call = NoCall
    /\ call' = [fn |-> "ultra_edit", changes |-> changes, dry_run |-> dry_run,
                files0 |-> files, round |-> 1, first |-> NoRet]
    /\ workers' = [i \in 1..Len(changes) |-> Worker("exists", <<>>, 0, NoResult)]
    /\ engine' = NewEngine(DefaultConfig)
    /\ ret' = NoRet
    /\ UNCHANGED <<cache, hist, wf, api, files>>

\* `if !path.exists()`
EditExists(i) ==
    /\ workers[i].pc = "exists"
    /\ workers' = [workers EXCEPT ![i].pc =
                      IF Exists(files, call.changes[i].path) THEN "read" ELSE "create"]
    /\ UNCHANGED <<cache, hist, wf, api, files, engine, call, ret>>

\* the auto-create: create_dir_all(parent), then fs::write(path, "")
EditCreate(i) ==
    LET p == call.changes[i].path IN
    /\ workers[i].pc = "create"
    /\ IF files[p].kind = "orphan"
       THEN /\ workers' = [workers EXCEPT ![i] = Worker("done", <<>>, 0,
                              Result(p, "Error", << <<"Failed to create parent dir">> >>))]
            /\ UNCHANGED files
       ELSE IF ~files[p].writable
       THEN /\ workers' = [workers EXCEPT ![i] = Worker("done", <<>>, 0,
                              Result(p, "Error", << <<"Failed to create new file">> >>))]
            /\ UNCHANGED files
       ELSE /\ workers' = [workers EXCEPT ![i].pc = "read"]
            /\ files' = WriteFile(files, p, <<>>)
    /\ UNCHANGED <<cache, hist, wf, api, engine, call, ret>>

\* fs::read_to_string, then the operations on the in-memory copy
EditRead(i) ==
    LET p == call.changes[i].path
        acc == apply_ops([content |-> files[p].content, applied |-> 0],
                         call.changes[i].operations)
    IN
    /\ workers[i].pc = "read"
    /\ workers' = [workers EXCEPT ![i] =
          IF ~CanReadToString(files, p)
          THEN Worker("done", <<>>, 0, Result(p, "Error", << <<"Read error">> >>))
          ELSE IF acc.applied > 0
          THEN IF call.dry_run
               THEN Worker("done", acc.content, acc.applied,
                           Result(p, "Success", << <<"Applied", Digits(acc.applied), "edits">> >>))
               ELSE Worker("write", acc.content, acc.applied, NoResult)
          ELSE Worker("done", acc.content, 0,
                      Result(p, "Skipped", << <<"No match found for edits">> >>))]
    /\ UNCHANGED <<cache, hist, wf, api, files, engine, call, ret>>

\* fs::write(path, &content) of an edited file
EditWrite(i) ==
    LET p == call.changes[i].path IN
    /\ workers[i].pc = "write"
    /\ IF files[p].writable /\ files[p].kind # "orphan"
       THEN /\ files' = WriteFile(files, p, workers[i].content)
            /\ workers' = [workers EXCEPT ![i].pc = "done", ![i].result =
                  Result(p, "Success", << <<"Applied", Digits(workers[i].applied), "edits">> >>)]
       ELSE /\ workers' = [workers EXCEPT ![i].pc = "done", ![i].result =
                  Result(p, "Error", << <<"Write error">> >>)]
            /\ UNCHANGED files
    /\ UNCHANGED <<cache, hist, wf, api, engine, call, ret>>

\* the caller issues the call that has returned once more
EditAgain ==
    /\ call.fn = "ultra_edit"
    /\ ret.fn = "ultra_edit"
    /\ call.round < MaxCalls
    /\ call' = [call EXCEPT !.files0 = files, !.round = @ + 1,
                            !.first = IF call.round = 1
                                      THEN [fn |-> "ultra_edit", results |-> ret.results,
                                            files0 |-> call.files0]
                                      ELSE @]
    /\ workers' = [i \in 1..Len(call.changes) |-> Worker("exists", <<>>, 0, NoResult)]
    /\ engine' = NewEngine(DefaultConfig)
    /\ ret' = NoRet
    /\ UNCHANGED <<cache, hist, wf, api, files>>

\* .collect(), the stats and the return of ultra_edit
EditReturn ==
    /\ call.fn = "ultra_edit"
    /\ ret = NoRet
    /\ \A i \in 1..Len(workers) : workers[i].pc = "done"
    /\ LET results == [i \in 1..Len(workers) |-> workers[i].result]
       IN ret' = [fn |-> "ultra_edit", ok |-> TRUE, results |-> results,
                  stats |-> EditStatsOf(results)]
    /\ workers' = <<>>
    /\ UNCHANGED <<cache, hist, wf, api, files, engine, call>>

-----------------------------------------------------------------------------
(* CodeAnalyzer::analyze_file and its cache *)

\* position of the first line break of s, 0 if it has none
FirstNL(s) ==
    IF \E i \in 1..Len(s) : s[i] = NL
    THEN CHOOSE i \in 1..Len(s) : s[i] = NL /\ \A j \in 1..(i - 1) : s[j] # NL
    ELSE 0

RECURSIVE Lines(_)
\* str::lines: the text between line breaks, a line break being "\n" or
\* "\r\n"; no empty last line
Lines(s) ==
    IF s = <<>> THEN <<>>
    ELSE LET k == FirstNL(s)
         IN IF k = 0 THEN <<s>>
            ELSE <<SubSeq(s, 1, IF k > 1 /\ s[k - 1] = CR THEN k - 2 ELSE k - 1)>>
                 \o Lines(SubSeq(s, k + 1, Len(s)))

\* how many items of s are in S
CountIn(s, S) == Cardinality({i \in 1..Len(s) : s[i] \in S})

\* the warnings, named after what they report, and the words of their texts
\* that calculate_security_score and ultra_analyze look for:
\*   google_api_key      "🛡️ SEGURIDAD: Google API Key detectada"
\*   openai_api_key      "🛡️ SEGURIDAD: OpenAI API Key detectada"
\*   password_hardcoded  "🛡️ SEGURIDAD: Password Hardcoded detectado"
\*   py_eval             "🛡️ SEGURIDAD (Python): Uso de eval() detectado"
\*   py_pickle           "🛡️ SEGURIDAD (Python): Deserialización insegura con pickle"
\*   py_no_main          "⚠️ Python: Script sin entry point claro (main)"
\*   unsafe_block        "☢️ RUST: Bloque unsafe detectado"
\*   static_mut          "🦠 RUST: static mut (estado global inseguro)"
\*   unwrap, heavy_clone, vec_no_capacity: the other warnings of a .rs file
Mentions(w, word) ==
    CASE word = "SEGURIDAD" ->
            w \in {"google_api_key", "openai_api_key", "password_hardcoded", "py_eval", "py_pickle"}
      [] word = "API Key" -> w \in {"google_api_key", "openai_api_key"}
      [] word = "Password" -> w = "password_hardcoded"
      [] word = "unsafe" -> w = "unsafe_block"
      [] OTHER -> FALSE

\* the part of detect_warnings that depends on the extension (lines 190-279)
language_warnings(content, ext) ==
    CASE ext = "py" ->
            (IF Contains(content, <<TokEval>>) THEN <<"py_eval">> ELSE <<>>)
            \o (IF Contains(content, <<TokPickle>>) THEN <<"py_pickle">> ELSE <<>>)
            \o <<"py_no_main">>
      [] ext = "rs" ->
            (IF Contains(content, <<TokUnsafe>>) THEN <<"unsafe_block">> ELSE <<>>)
            \o (IF Contains(content, <<TokUnwrap>>) THEN <<"unwrap">> ELSE <<>>)
            \o (IF Contains(content, <<TokClone>>) /\ Bytes(content) > HeavyCloneBytes
                THEN <<"heavy_clone">> ELSE <<>>)
            \o (IF Contains(content, <<TokStaticMut>>) THEN <<"static_mut">> ELSE <<>>)
            \o (IF Contains(content, <<TokVecNew>>) /\ ~Contains(content, <<TokWithCap>>)
                THEN <<"vec_no_capacity">> ELSE <<>>)
      [] OTHER -> <<>>

\* the secrets looked for in a file of any extension (lines 281-290)
secret_warnings(content) ==
    (IF Contains(content, <<TokGoogleKey>>) THEN <<"google_api_key">> ELSE <<>>)
    \o (IF Contains(content, <<TokOpenAIKey>>) THEN <<"openai_api_key">> ELSE <<>>)
    \o (IF Contains(content, <<TokPassword>>) THEN <<"password_hardcoded">> ELSE <<>>)

\* detect_warnings for a file of the given extension
detect_warnings_of(content, ext) ==
    language_warnings(content, ext) \o secret_warnings(content)

\* detect_warnings for a .rs file, the extension of every path analysed
detect_warnings(content) == detect_warnings_of(content, "rs")

RECURSIVE Penalty(_)
\* the loop of calculate_security_score: 25 for a warning that mentions
\* SEGURIDAD, API Key or Password, else 15 for one that mentions unsafe,
\* else 5
Penalty(warnings) ==
    IF warnings = <<>> THEN 0
    ELSE LET w == Head(warnings)
         IN (IF Mentions(w, "SEGURIDAD") \/ Mentions(w, "API Key") \/ Mentions(w, "Password")
             THEN SecretPenalty
             ELSE IF Mentions(w, "unsafe") THEN UnsafePenalty
             ELSE MinorPenalty)
            + Penalty(Tail(warnings))

\* a score that is not clamped
calculate_security_score_unclamped(warnings) == FullScore - Penalty(warnings)

\* calculate_security_score: clamped to 0..FullScore
calculate_security_score(warnings) ==
    Max(0, Min(FullScore, FullScore - Penalty(warnings)))

\* count_regex: the matches of a pattern in the content; each pattern
\* matches whole tokens, S being the tokens it matches
count_regex(content, S) == CountIn(content, S)

RE_COMMENT == {TokComment}
RE_FN == {TokFn}
\* if\s*[({] : an `if` followed by a parenthesis or a brace; not `if c {`
RE_COMPLEX_IF == {TokIfParen}
RE_COMPLEX_ELSE == {TokElse}
RE_COMPLEX_MATCH == {TokMatch}
RE_COMPLEX_FOR == {TokFor}
RE_COMPLEX_WHILE == {TokWhile}

\* estimate_complexity, in tenths
estimate_complexity(content, base) ==
    base + 15 * count_regex(content, RE_COMPLEX_IF)
         + 5 * count_regex(content, RE_COMPLEX_ELSE)
         + 20 * count_regex(content, RE_COMPLEX_MATCH)
         + 15 * count_regex(content, RE_COMPLEX_FOR)
         + 15 * count_regex(content, RE_COMPLEX_WHILE)
         + 5 * count_regex(content, RE_FN)

\* the lines of the content that trim() leaves empty
BlankLines(lines) ==
    {i \in 1..Len(lines) : \A k \in 1..Len(lines[i]) : lines[i][k] \in {SP, CR}}

\* the FileAnalysis computed from a file's content (lines 85-123); no token
\* holds a struct.  lines_with_code is a subtraction of unsigned counts: a
\* negative value here stands for the program's outcome when the
\* subtraction underflows (a panic where overflow is checked, the value
\* plus 2^64 where it is not)
Analysis(p, content) ==
    LET lines == Lines(content)
        blank == Cardinality(BlankLines(lines))
        comment == count_regex(content, RE_COMMENT)
        warnings == detect_warnings(content)
    IN [file_path |-> p,
        lines_of_code |-> Len(lines),
        lines_with_code |-> Len(lines) - blank - comment,
        blank_lines |-> blank,
        comment_lines |-> comment,
        complexity_estimate |-> estimate_complexity(content, BaseComplexity),
        functions |-> count_regex(content, RE_FN),
        structs |-> 0,
        imports |-> CountIn(content, {TokUseA, TokUseB}),
        warnings |-> warnings,
        security_score |-> calculate_security_score(warnings)]

\* ANALYSIS_CACHE before any call
EmptyCache == [p \in Paths |-> {}]

Entry(ts, value) == [ts |-> ts, value |-> value]

\* a cache check that takes any entry of the path, whatever its timestamp
CacheHitAnyTimestamp(c, k, modified) == c[k] # {}

\* a cache check that takes an entry unless it is newer than the file
CacheHitNotNewer(c, k, modified) == \E e \in c[k] : e.ts <= modified

\* `if let Some(entry) = ANALYSIS_CACHE.get(&path_key) { if entry.0 == modified`
CacheHit(c, k, modified) == \E e \in c[k] : e.ts = modified

\* scc::HashMap::insert: adds the pair if the key is absent; if the key is
\* present the map is left as it is and the pair comes back in an Err, which
\* analyze_file drops (`let _ =`)
Insert(c, k, v) == IF c[k] = {} THEN [c EXCEPT ![k] = {v}] ELSE c

\* can be opened and mapped: File::open and Mmap::map succeed
CanMap(fs, p) == fs[p].kind \in {"binary", "text"}

\* an analyze_file that remembers an empty analysis for a path it did not find
analyze_file_caching_missing(fs, c, p) ==
    IF ~Exists(fs, p)
    THEN [ok |-> FALSE, error |-> "FileNotFound", computed |-> FALSE,
          cache |-> Insert(c, p, Entry(fs[p].mtime, Analysis(p, <<>>)))]
    ELSE IF CacheHit(c, p, fs[p].mtime)
    THEN [ok |-> TRUE, value |-> (CHOOSE e \in c[p] : TRUE).value,
          computed |-> FALSE, cache |-> c]
    ELSE IF ~CanMap(fs, p)
    THEN [ok |-> FALSE, error |-> "Io", computed |-> FALSE, cache |-> c]
    ELSE LET result == Analysis(p, fs[p].content)
         IN [ok |-> TRUE, value |-> result, computed |-> TRUE,
             cache |-> Insert(c, p, Entry(fs[p].mtime, result))]

\* CodeAnalyzer::analyze_file: what it returns, whether it computed, and
\* the cache it leaves
analyze_file(fs, c, p) ==
    IF ~Exists(fs, p)
    THEN [ok |-> FALSE, error |-> "FileNotFound", computed |-> FALSE, cache |-> c]
    ELSE IF CacheHit(c, p, fs[p].mtime)
    THEN [ok |-> TRUE, value |-> (CHOOSE e \in c[p] : TRUE).value,
          computed |-> FALSE, cache |-> c]
    ELSE IF ~CanMap(fs, p)
    THEN [ok |-> FALSE, error |-> "Io", computed |-> FALSE, cache |-> c]
    ELSE LET result == Analysis(p, fs[p].content)
         IN [ok |-> TRUE, value |-> result, computed |-> TRUE,
             cache |-> Insert(c, p, Entry(fs[p].mtime, result))]

\* what is remembered of a file: the timestamps it has had, whether one of
\* them came back, whether it was modified after an analysis, and the
\* analyses first computed and returned for each timestamp
NoHistory(fs) ==
    [p \in Paths |-> [seen |-> {fs[p].mtime}, reused |-> FALSE, analyzed |-> FALSE,
                      modified |-> FALSE, returned |-> {}, ops |-> 0]]

\* the calls and modifications made so far
OpsSoFar == SumSet(Paths, [p \in Paths |-> hist[p].ops])

\* ultra_workflow is not running
NoWorkflow == [status |-> "none"]

\* a call of analyze_file on p
AnalyzeFile(p) ==
    /\ api = "analyze_file"
    /\ OpsSoFar < MaxOps
    /\ \E r \in {analyze_file(files, cache, p)} :
          /\ cache' = r.cache
          /\ ret' = [fn |-> "analyze_file", ok |-> r.ok, computed |-> r.computed,
                     value |-> IF r.ok THEN {r.value} ELSE {},
                     error |-> IF r.ok THEN {} ELSE {r.error}]
          /\ hist' = [hist EXCEPT
                ![p].ops = @ + 1,
                ![p].analyzed = @ \/ r.ok,
                ![p].returned =
                    IF r.ok /\ r.computed /\ ~\E e \in @ : e.ts = files[p].mtime
                    THEN @ \cup {Entry(files[p].mtime, r.value)} ELSE @]
    /\ call' = [fn |-> "analyze_file", path |-> p, exists |-> Exists(files, p),
                file |-> files[p], entry |-> cache[p], hist |-> hist[p]]
    /\ UNCHANGED <<api, files, engine, workers, wf>>

\* the file is modified by its owner: new content and a new modification
\* timestamp, which may be one the file has had before (a restored copy,
\* a clock set back)
Modify(p, c, t) ==
    /\ api = "analyze_file"
    /\ OpsSoFar < MaxOps
    /\ Exists(files, p)
    /\ c # files[p].content
    /\ t # files[p].mtime
    /\ files' = [files EXCEPT ![p].content = c, ![p].mtime = t]
    /\ hist' = [hist EXCEPT
          ![p].ops = @ + 1,
          ![p].seen = @ \cup {t},
          ![p].reused = @ \/ t \in hist[p].seen,
          ![p].modified = @ \/ hist[p].analyzed]
    /\ UNCHANGED <<api, engine, call, workers, ret, cache, wf>>

-----------------------------------------------------------------------------
(* workspace::smart_repair and ultra_repair *)

\* char::is_whitespace, within a line
White == {SP, CR}

\* a trim that takes one whitespace off the end
TrimOne(l) == IF l # <<>> /\ l[Len(l)] \in White THEN SubSeq(l, 1, Len(l) - 1) ELSE l

RECURSIVE TrimEnd(_)
\* str::trim_end
TrimEnd(l) ==
    IF l # <<>> /\ l[Len(l)] \in White THEN TrimEnd(SubSeq(l, 1, Len(l) - 1)) ELSE l

RECURSIVE TrimStart(_)
TrimStart(l) == IF l # <<>> /\ Head(l) \in White THEN TrimStart(Tail(l)) ELSE l

\* str::trim
Trim(l) == TrimStart(TrimEnd(l))

\* trimmed.starts_with("use ")
IsImport(l) == Trim(l) # <<>> /\ Head(Trim(l)) \in {TokUseA, TokUseB}

RECURSIVE RepairLines(_, _)
\* the loop of smart_repair over the lines: every line without its trailing
\* whitespace and with a line break, but for an import already seen
RepairLines(lines, seen_imports) ==
    IF lines = <<>> THEN <<>>
    ELSE IF IsImport(Head(lines))
    THEN IF Trim(Head(lines)) \in seen_imports
         THEN RepairLines(Tail(lines), seen_imports)
         ELSE TrimEnd(Head(lines)) \o <<NL>>
              \o RepairLines(Tail(lines), seen_imports \cup {Trim(Head(lines))})
    ELSE TrimEnd(Head(lines)) \o <<NL>> \o RepairLines(Tail(lines), seen_imports)

\* the loop has met an import it had seen: "Duplicate import removed"
DuplicateImport(lines) ==
    \E i, j \in 1..Len(lines) :
        i < j /\ IsImport(lines[i]) /\ IsImport(lines[j]) /\ Trim(lines[i]) = Trim(lines[j])

\* workspace::smart_repair(path): what it returns and the file it leaves
smart_repair(fs, p) ==
    IF ~CanReadToString(fs, p) THEN [out |-> OpErr(<<"read failed">>), file |-> fs[p]]
    ELSE CHOOSE r \in
           {IF modified # fs[p].content
            THEN IF fs[p].writable
                 THEN [out |-> OpOk(<<p, "SMART REPAIR",
                                      IF DuplicateImport(Lines(fs[p].content))
                                      THEN "Duplicate import removed"
                                      ELSE "Formatting">>, "Success"),
                       file |-> WriteFile(fs, p, modified)[p]]
                 ELSE [out |-> OpErr(<<"write failed">>), file |-> fs[p]]
            ELSE [out |-> OpOk(<<p, "CODIGO YA OPTIMO">>, "Success"), file |-> fs[p]]
            : modified \in {RepairLines(Lines(fs[p].content), {})}} : TRUE

\* ultra_repair: a fresh engine, process_files with smart_repair as the
\* operation; the files it leaves (the tasks of one batch write different
\* files when its paths are distinct)
ultra_repair(fs, cfg, paths) ==
    CHOOSE u \in
      {[results |-> r.results,
        stats |-> r.stats,
        files |-> Tabulated([p \in Paths |->
                      IF Occurrences(paths, p) > 0 /\ ReachesOperation(fs, cfg, p)
                      THEN smart_repair(fs, p).file ELSE fs[p]])]
       : r \in {process_files(fs, NewEngine(cfg),
                               Tabulated([p \in Paths |-> smart_repair(fs, p).out]), paths)}}
      : TRUE

\* the blank lines repair_file lets stand in a row
MaxBlankRun == 2

RECURSIVE KeptLines(_, _)
\* the loop of repair_file over the lines: a line stays unless it is blank
\* and more than MaxBlankRun blank lines end with it
KeptLines(lines, empty_count) ==
    IF lines = <<>> THEN <<>>
    ELSE LET count == IF Trim(Head(lines)) = <<>> THEN empty_count + 1 ELSE 0
         IN (IF count <= MaxBlankRun THEN <<Head(lines)>> ELSE <<>>)
            \o KeptLines(Tail(lines), count)

RECURSIVE Join(_, _)
\* [&str]::join
Join(lines, sep) ==
    IF lines = <<>> THEN <<>>
    ELSE IF Len(lines) = 1 THEN Head(lines)
    ELSE Head(lines) \o sep \o Join(Tail(lines), sep)

\* workspace::repair_file(path): what it returns and the file it leaves
repair_file(fs, p) ==
    IF ~CanReadToString(fs, p) THEN [out |-> OpErr(<<"read failed">>), file |-> fs[p]]
    ELSE CHOOSE r \in
           {IF Len(new_lines) # Len(Lines(fs[p].content))
            THEN IF fs[p].writable
                 THEN [out |-> OpOk(<<p, "REPARADO">>, "Success"),
                       file |-> WriteFile(fs, p, Join(new_lines, <<NL>>) \o <<NL>>)[p]]
                 ELSE [out |-> OpErr(<<"write failed">>), file |-> fs[p]]
            ELSE [out |-> OpOk(<<p, "NO REQUIRIO REPARACION">>, "Success"), file |-> fs[p]]
            : new_lines \in {KeptLines(Lines(fs[p].content), 0)}} : TRUE

\* workspace::process_parallel(paths, repair_file) of repair_project, for
\* distinct paths: every file is repaired on its own
repair_project(fs, paths) ==
    [results |-> [i \in 1..Len(paths) |-> repair_file(fs, paths[i]).out] \o <<>>,
     files |-> [p \in DOMAIN fs |->
                  IF Occurrences(paths, p) > 0 THEN repair_file(fs, p).file ELSE fs[p]]]

\* a repair is requested for a batch: the Repair step's ultra_repair, or
\* repair_project; round counts the requests of one kind in a row
RepairCall(fn, paths) ==
    /\ api = "repair"
    /\ call.fn # "none" => call.total < MaxCalls
    /\ call' = [fn |-> fn, paths |-> paths, files0 |-> files,
                round |-> IF call.fn = fn THEN call.round + 1 ELSE 1,
                total |-> IF call.fn = "none" THEN 1 ELSE call.total + 1,
                before |-> ret]
    /\ IF fn = "ultra_repair"
       THEN \E r \in {ultra_repair(files, DefaultConfig, paths)} :
               /\ files' = r.files
               /\ ret' = [fn |-> fn, ok |-> TRUE, results |-> r.results, stats |-> r.stats]
       ELSE \E r \in {repair_project(files, paths)} :
               /\ files' = r.files
               /\ ret' = [fn |-> fn, ok |-> TRUE, results |-> r.results]
    /\ UNCHANGED <<cache, hist, wf, api, engine, workers>>

-----------------------------------------------------------------------------
(* ultra_edit as one step, for changes on distinct paths *)

\* the task of ultra_edit for one FileChange: its result and the file it leaves
edit_one(fs, change, dry_run) ==
    LET p == change.path
        created == IF Exists(fs, p) THEN fs ELSE WriteFile(fs, p, <<>>)
        acc == apply_ops([content |-> created[p].content, applied |-> 0], change.operations)
        applied_msg == << <<"Applied", Digits(acc.applied), "edits">> >>
    IN IF fs[p].kind = "orphan"
       THEN [result |-> Result(p, "Error", << <<"Failed to create parent dir">> >>), file |-> fs[p]]
       ELSE IF ~Exists(fs, p) /\ ~fs[p].writable
       THEN [result |-> Result(p, "Error", << <<"Failed to create new file">> >>), file |-> fs[p]]
       ELSE IF ~CanReadToString(created, p)
       THEN [result |-> Result(p, "Error", << <<"Read error">> >>), file |-> created[p]]
       ELSE IF acc.applied = 0
       THEN [result |-> Result(p, "Skipped", << <<"No match found for edits">> >>),
             file |-> created[p]]
       ELSE IF dry_run
       THEN [result |-> Result(p, "Success", applied_msg), file |-> created[p]]
       ELSE IF created[p].writable
       THEN [result |-> Result(p, "Success", applied_msg),
             file |-> WriteFile(created, p, acc.content)[p]]
       ELSE [result |-> Result(p, "Error", << <<"Write error">> >>), file |-> created[p]]

\* ultra_edit(changes, config, dry_run) when no two changes name the same path
ultra_edit(fs, changes, dry_run) ==
    LET results == [i \in 1..Len(changes) |-> edit_one(fs, changes[i], dry_run).result] \o <<>>
    IN [results |-> results,
        stats |-> EditStatsOf(results),
        files |-> [p \in Paths |->
                      IF \E i \in 1..Len(changes) : changes[i].path = p
                      THEN edit_one(fs, [path |-> p,
                                         operations |-> (CHOOSE c \in Range(changes) : c.path = p).operations],
                                    dry_run).file
                      ELSE fs[p]]]

-----------------------------------------------------------------------------
(* ultra_workflow *)

\* Option<T>: None is the empty set, Some(x) is {x}
None == {}
Some(x) == {x}
unwrap_or(o, d) == IF o = {} THEN d ELSE CHOOSE x \in o : TRUE

\* WorkflowStep
Scan(path, extension) == [type |-> "Scan", path |-> path, extension |-> extension]
Filter(pattern, invert) == [type |-> "Filter", pattern |-> pattern, invert |-> invert]
AnalyzeStep == [type |-> "Analyze"]
EditStep(operations) == [type |-> "Edit", operations |-> operations]
RepairStep == [type |-> "Repair"]
Evolve(max_iterations, dry_run) ==
    [type |-> "Evolve", max_iterations |-> max_iterations, dry_run |-> dry_run]

\* a regex pattern: malformed, or a literal text
Pattern(valid, lit) == [valid |-> valid, lit |-> lit]

\* the entries a scanned directory can hold: files with the extension in
\* either case, with another and with none, a directory with an extension,
\* a hidden file, a file that .gitignore excludes
ScanNames == {"a.rs", "b.RS", "c.txt", "d.rs", ".h.rs", "ign.rs", "Makefile"}

\* the root scanned
ScanRoot == "src"

\* Path::extension of an entry
Extension(name) ==
    CASE name \in {"a.rs", "b.rs", "d.rs", ".h.rs", "ign.rs"} -> Some("rs")
      [] name = "b.RS" -> Some("RS")
      [] name = "c.txt" -> Some("txt")
      [] OTHER -> None

\* what an entry is once it exists
EntryKind(name) == IF name = "d.rs" THEN "dir" ELSE "text"

IsHidden(name) == name = ".h.rs"
IsIgnored(name) == name = "ign.rs"

\* ASCII lower case of an extension
Lower(e) == IF e = "RS" THEN "rs" ELSE e

\* a comparison of extensions that ignores case
SameExtensionIgnoringCase(found, extension) ==
    found # None /\ Lower(CHOOSE e \in found : TRUE) = Lower(extension)

\* e.path().extension().map_or(false, |ext| ext == extension)
SameExtension(found, extension) == found = Some(extension)

\* the directories of the filesystem: every path of Paths lies in "src"
Dirs == {"src"}

\* a root that exists although it does not
AnyRootExists(fs, root) == TRUE

\* Path::new(path).exists() of a scan root: an entry of the filesystem, or
\* a directory that is always there
RootExists(fs, root) == IF root \in DOMAIN fs THEN Exists(fs, root) ELSE root \in Dirs

\* the walk from root reaches p: root is a directory above p, or p itself
WalkReaches(fs, root, p) ==
    IF root \in DOMAIN fs THEN root = p \/ (fs[root].kind = "dir" /\ p # root)
    ELSE root \in Dirs

\* ScanUtils::collect_files(root, ext, true, false): the regular files the
\* walk from root yields, hidden entries skipped, with the extension asked
\* for; _use_gitignore is not used
collect_files(fs, root, extension) ==
    {p \in DOMAIN fs : /\ Exists(fs, p)
                       /\ fs[p].kind # "dir"
                       /\ WalkReaches(fs, root, p)
                       /\ ~IsHidden(p)
                       /\ extension = None \/ Extension(p) = extension}

\* the orders in which a walk can yield the files of S
Orders(S) ==
    {s \in [1..Cardinality(S) -> S] : \A i, j \in 1..Cardinality(S) : i # j => s[i] # s[j]}

\* the closure of the Filter step: the file is kept
Keeps(fs, pattern, inv, p) ==
    IF CanReadToString(fs, p)
    THEN LET m == Contains(fs[p].content, pattern.lit) IN IF inv THEN ~m ELSE m
    ELSE FALSE

\* format!("{:.1}", complexity_estimate), the estimate being in tenths
FormatTenths(n) == IF n = BaseComplexity THEN "1.0" ELSE "other"

\* the operation of the Analyze step
AnalyzeOp(fs, c) ==
    [p \in Paths |->
        LET a == analyze_file(fs, c, p) IN
        OpOk((IF a.ok
              THEN <<"Complexity", FormatTenths(a.value.complexity_estimate)>>
                   \o (IF a.value.security_score < LowScore
                       THEN <<"Low Security Score">> ELSE <<>>)
              ELSE <<>>)
             \o (IF Contains(fs[p].content, <<TokTodo>>) THEN <<"Has TODO">> ELSE <<>>),
             "Success")]

\* the cache after the Analyze step's operation has run on the files of the
\* batch that process_one could read
AnalyzedCache(fs, c, cfg, paths) ==
    [p \in Paths |->
        IF Occurrences(paths, p) > 0 /\ ReachesOperation(fs, cfg, p)
        THEN analyze_file(fs, c, p).cache[p] ELSE c[p]]

\* the fixable patterns the Evolve step looks for, in its order
FixableFindings(content) ==
    (IF Contains(content, <<TokClone>>) /\ Bytes(content) > HeavyCloneBytes
     THEN <<"FIXABLE:heavy_clone">> ELSE <<>>)
    \o (IF Contains(content, <<TokUnwrap>>) THEN <<"FIXABLE:unwrap_usage">> ELSE <<>>)
    \o (IF Contains(content, <<TokVecNew>>) /\ ~Contains(content, <<TokWithCap>>)
        THEN <<"FIXABLE:vec_no_capacity">> ELSE <<>>)

\* the operation of an Evolve iteration: the findings joined into one message
EvolveOp(fs) == [p \in Paths |-> OpOk(FixableFindings(fs[p].content), "Success")]

\* f.contains("FIXABLE:") for a finding f, a sequence of message parts
IsFixable(f) ==
    \E k \in 1..Len(f) :
        f[k] \in {"FIXABLE:heavy_clone", "FIXABLE:unwrap_usage", "FIXABLE:vec_no_capacity"}

\* `for res in &analysis_results { issues_found += ... }`
CountIssues(results) ==
    SumSet(1..Len(results),
           [i \in 1..Len(results) |->
               Cardinality({k \in 1..Len(results[i].findings) :
                               IsFixable(results[i].findings[k])})])

\* the convergence test that never holds
NeverConverged(issues_found) == FALSE

\* `if issues_found == 0`
Converged(issues_found) == issues_found = 0

\* a loop test that lets one more iteration through
ContinuesOnceMore(iteration, max_iter) == iteration <= max_iter

\* `for iteration in 0..max_iter`: the loop goes on with this iteration
Continues(iteration, max_iter) == iteration < max_iter

\* a default that makes Evolve repair unless told otherwise
DryRunDefaultsOff(dry_run) == unwrap_or(dry_run, FALSE)

\* `let is_dry = dry_run.unwrap_or(true)`
IsDry(dry_run) == unwrap_or(dry_run, TRUE)

\* format!("EVOLVE_ITER_{}", n)
IterPath(n) ==
    IF n \in 1..9
    THEN <<"EVOLVE_ITER_1", "EVOLVE_ITER_2", "EVOLVE_ITER_3", "EVOLVE_ITER_4", "EVOLVE_ITER_5",
           "EVOLVE_ITER_6", "EVOLVE_ITER_7", "EVOLVE_ITER_8", "EVOLVE_ITER_9">>[n]
    ELSE "EVOLVE_ITER_many"

BoolStr(b) == IF b THEN "true" ELSE "false"

\* the Evolve loop's locals (iteration, max_iter, is_dry) and a record of
\* the loop: the step it belongs to, where its entries lie in the log, the
\* state it started from, the issue count of every analysis it ran and the
\* number of repairs it ran
NoEvolve(fs) ==
    [active |-> FALSE, started |-> FALSE, iteration |-> 0, max_iter |-> 0, is_dry |-> TRUE,
     converged |-> FALSE, at |-> 0, log0 |-> 0, log1 |-> 0, successful0 |-> 0,
     files0 |-> fs, paths0 |-> <<>>, issues |-> <<>>, repairs |-> 0]

\* the step the workflow is at
Step == wf.steps[wf.pc]

\* the dispatcher is at a step of the given type
At(type) ==
    /\ api = "ultra_workflow"
    /\ wf.status = "running"
    /\ ~wf.evolve.active
    /\ wf.pc <= Len(wf.steps)
    /\ Step.type = type

\* `return Err(..)` / `?`: the workflow ends with a top-level error
Fail(error) ==
    /\ wf' = [wf EXCEPT !.status = "failed"]
    /\ ret' = [fn |-> "ultra_workflow", ok |-> FALSE, error |-> error]

\* ultra_workflow is called
WorkflowBegin(request, cfg) ==
    /\ api = "ultra_workflow"
    /\ call = NoCall
    /\ call' = [fn |-> "ultra_workflow", request |-> request, config |-> cfg]
    /\ engine' = NewEngine(cfg)
    /\ wf' = [status |-> "running", steps |-> request.steps, dry_run |-> request.dry_run,
              config |-> cfg, pc |-> 1, active_files |-> <<>>, all_results |-> <<>>,
              stats |-> DefaultStats, evolve |-> NoEvolve(files)]
    /\ UNCHANGED <<api, files, workers, ret, cache, hist>>

\* a Scan that adds what it finds to the active files
StepScanMerging ==
    /\ At("Scan")
    /\ IF RootExists(files, Step.path)
       THEN /\ \E found \in Orders(collect_files(files, Step.path, Step.extension)) :
                 wf' = [wf EXCEPT
                          !.active_files = @ \o found,
                          !.stats.total_files = Len(found),
                          !.all_results = Append(@, Result("PIPELINE_SCAN", "Success",
                                              << <<"Scanned", Digits(Len(found)), "files">> >>)),
                          !.pc = @ + 1]
            /\ UNCHANGED ret
       ELSE Fail(<<"Invalid path", Step.path>>)
    /\ UNCHANGED <<api, files, engine, call, workers, cache, hist>>

\* WorkflowStep::Scan
StepScan ==
    /\ At("Scan")
    /\ IF RootExists(files, Step.path)
       THEN /\ \E found \in Orders(collect_files(files, Step.path, Step.extension)) :
                 wf' = [wf EXCEPT
                          !.active_files = found,
                          !.stats.total_files = Len(found),
                          !.all_results = Append(@, Result("PIPELINE_SCAN", "Success",
                                              << <<"Scanned", Digits(Len(found)), "files">> >>)),
                          !.pc = @ + 1]
            /\ UNCHANGED ret
       ELSE Fail(<<"Invalid path", Step.path>>)
    /\ UNCHANGED <<api, files, engine, call, workers, cache, hist>>

\* a Filter that puts its summary in the place of the log's last entry
StepFilterRewriting ==
    /\ At("Filter")
    /\ IF Step.pattern.valid
       THEN LET inv == unwrap_or(Step.invert, FALSE)
                kept == SelectSeq(wf.active_files,
                                  LAMBDA p : Keeps(files, Step.pattern, inv, p))
                rejected_count == Len(wf.active_files) - Len(kept)
                entry == Result("PIPELINE_FILTER", "Success",
                                << <<"kept", Digits(Len(kept)),
                                     "rejected", Digits(rejected_count)>> >>)
            IN /\ wf' = [wf EXCEPT
                          !.active_files = kept,
                          !.all_results = IF @ = <<>> THEN <<entry>>
                                          ELSE [@ EXCEPT ![Len(@)] = entry],
                          !.pc = @ + 1]
               /\ UNCHANGED ret
       ELSE Fail(<<"regex parse error">>)
    /\ UNCHANGED <<api, files, engine, call, workers, cache, hist>>

\* WorkflowStep::Filter
StepFilter ==
    /\ At("Filter")
    /\ IF Step.pattern.valid
       THEN LET inv == unwrap_or(Step.invert, FALSE)
                kept == SelectSeq(wf.active_files,
                                  LAMBDA p : Keeps(files, Step.pattern, inv, p))
                rejected_count == Len(wf.active_files) - Len(kept)
            IN /\ wf' = [wf EXCEPT
                          !.active_files = kept,
                          !.all_results = Append(@, Result("PIPELINE_FILTER", "Success",
                                << <<"kept", Digits(Len(kept)),
                                     "rejected", Digits(rejected_count)>> >>)),
                          !.pc = @ + 1]
               /\ UNCHANGED ret
       ELSE Fail(<<"regex parse error">>)
    /\ UNCHANGED <<api, files, engine, call, workers, cache, hist>>

\* WorkflowStep::Analyze
StepAnalyze ==
    /\ At("Analyze")
    /\ \E r \in {process_files(files, engine, AnalyzeOp(files, cache), wf.active_files)} :
          /\ engine' = r.engine
          /\ wf' = [wf EXCEPT !.all_results = @ \o r.results,
                              !.stats.successful = @ + r.stats.successful,
                              !.pc = @ + 1]
    /\ cache' = AnalyzedCache(files, cache, wf.config, wf.active_files)
    /\ UNCHANGED <<api, files, call, workers, ret, hist>>

\* WorkflowStep::Edit: one FileChange per active file, the request's dry_run
StepEdit ==
    /\ At("Edit")
    /\ \E r \in {ultra_edit(files,
                            [i \in 1..Len(wf.active_files) |->
                                [path |-> wf.active_files[i], operations |-> Step.operations]],
                            unwrap_or(wf.dry_run, FALSE))} :
          /\ files' = r.files
          /\ wf' = [wf EXCEPT !.all_results = @ \o r.results,
                              !.stats.successful = @ + r.stats.successful,
                              !.pc = @ + 1]
    /\ UNCHANGED <<api, engine, call, workers, ret, cache, hist>>

\* WorkflowStep::Repair
StepRepair ==
    /\ At("Repair")
    /\ \E r \in {ultra_repair(files, wf.config, wf.active_files)} :
          /\ files' = r.files
          /\ wf' = [wf EXCEPT !.all_results = @ \o r.results,
                              !.stats.successful = @ + r.stats.successful,
                              !.pc = @ + 1]
    /\ UNCHANGED <<api, engine, call, workers, ret, cache, hist>>

\* WorkflowStep::Evolve: max_iter and is_dry are fixed, the loop is entered
EvolveBegin ==
    /\ At("Evolve")
    /\ wf' = [wf EXCEPT !.evolve =
                [active |-> TRUE, started |-> TRUE, iteration |-> 0,
                 max_iter |-> unwrap_or(Step.max_iterations, DefaultMaxIterations),
                 is_dry |-> IsDry(Step.dry_run),
                 converged |-> FALSE, at |-> wf.pc, log0 |-> Len(wf.all_results),
                 log1 |-> Len(wf.all_results), successful0 |-> wf.stats.successful,
                 files0 |-> files, paths0 |-> wf.active_files, issues |-> <<>>,
                 repairs |-> 0]]
    /\ UNCHANGED <<api, files, engine, call, workers, ret, cache, hist>>

\* one iteration of the Evolve loop
EvolveIterate ==
    /\ api = "ultra_workflow"
    /\ wf.status = "running"
    /\ wf.evolve.active
    /\ ~wf.evolve.converged
    /\ Continues(wf.evolve.iteration, wf.evolve.max_iter)
    /\ \E a \in {process_files(files, engine, EvolveOp(files), wf.active_files)} :
       \E issues_found \in {CountIssues(a.results)} :
          /\ engine' = a.engine
          /\ IF Converged(issues_found)
             THEN /\ wf' = [wf EXCEPT
                             !.all_results = Append(@, Result("EVOLVE_COMPLETE", "Success",
                                   << <<"No more issues after", Digits(wf.evolve.iteration),
                                        "iterations">> >>)),
                             !.evolve.converged = TRUE,
                             !.evolve.issues = Append(@, issues_found)]
                  /\ UNCHANGED files
             ELSE \E rep \in {IF wf.evolve.is_dry
                              THEN [results |-> <<>>, stats |-> DefaultStats, files |-> files]
                              ELSE ultra_repair(files, wf.config, wf.active_files)} :
                  \E fixes_applied \in {rep.stats.successful} :
                     /\ files' = rep.files
                     /\ wf' = [wf EXCEPT
                           !.all_results = Append(@ \o rep.results,
                               Result(IterPath(wf.evolve.iteration + 1), "Success",
                                      << <<"Issues", Digits(issues_found),
                                           "Fixes", Digits(fixes_applied),
                                           "dry_run", BoolStr(wf.evolve.is_dry)>> >>)),
                           !.stats.successful = @ + fixes_applied,
                           !.evolve.iteration = @ + 1,
                           !.evolve.issues = Append(@, issues_found),
                           !.evolve.repairs = @ + (IF wf.evolve.is_dry THEN 0 ELSE 1)]
    /\ UNCHANGED <<api, call, workers, ret, cache, hist>>

\* the loop is left: by `break`, or because the range is exhausted
EvolveExit ==
    /\ api = "ultra_workflow"
    /\ wf.status = "running"
    /\ wf.evolve.active
    /\ wf.evolve.converged \/ ~Continues(wf.evolve.iteration, wf.evolve.max_iter)
    /\ wf' = [wf EXCEPT !.evolve.active = FALSE, !.evolve.log1 = Len(wf.all_results),
                        !.pc = @ + 1]
    /\ UNCHANGED <<api, files, engine, call, workers, ret, cache, hist>>

\* `Ok((all_results, stats))` after the last step
WorkflowReturn ==
    /\ api = "ultra_workflow"
    /\ wf.status = "running"
    /\ ~wf.evolve.active
    /\ wf.pc > Len(wf.steps)
    /\ wf' = [wf EXCEPT !.status = "done"]
    /\ ret' = [fn |-> "ultra_workflow", ok |-> TRUE, results |-> wf.all_results,
               stats |-> wf.stats]
    /\ UNCHANGED <<api, files, engine, call, workers, cache, hist>>

-----------------------------------------------------------------------------
(* ultra_analyze *)

\* a finding that carries one of the marks ultra_analyze takes for an error
Alarming(f) ==
    f = "Error en analisis estructural"
    \/ f \in {"google_api_key", "openai_api_key", "password_hardcoded", "py_eval", "py_pickle"}

\* the operation of ultra_analyze: the analysis or the note of its failure,
\* the note of an unsafe block, then the status from the findings; no token
\* holds an unwrap with its dot
UltraAnalyzeOp(fs, c) ==
    [p \in Paths |->
        LET a == analyze_file(fs, c, p)
            findings == (IF a.ok THEN <<"LOC Complexity">> \o a.value.warnings
                         ELSE <<"Error en analisis estructural">>)
                        \o (IF Contains(fs[p].content, <<TokUnsafe>>) THEN <<"UNSAFE">> ELSE <<>>)
        IN OpOk(findings,
                IF \E i \in 1..Len(findings) : Alarming(findings[i]) THEN "Error"
                ELSE IF Len(findings) > 1 THEN "Warning"
                ELSE "Success")]

\* ultra_analyze(paths, config): a fresh engine, then process_files
UltraAnalyze(cfg, paths) ==
    /\ api = "ultra_analyze"
    /\ call = NoCall
    /\ \E r \in {process_files(files, NewEngine(cfg), UltraAnalyzeOp(files, cache), paths)} :
          /\ engine' = r.engine
          /\ ret' = [fn |-> "ultra_analyze", ok |-> TRUE, results |-> r.results,
                     stats |-> r.stats]
    /\ call' = [fn |-> "ultra_analyze", config |-> cfg, paths |-> paths]
    /\ cache' = AnalyzedCache(files, cache, cfg, paths)
    /\ UNCHANGED <<hist, wf, api, files, workers>>

-----------------------------------------------------------------------------
(* ultra_delete *)

\* what ultra_delete can be given: the files and the directory they lie in
DeleteTargets == Paths \cup Dirs

\* an existing directory
Directory == [kind |-> "dir", content |-> <<>>, mtime |-> 1, writable |-> TRUE]

\* Path::is_dir
IsDir(fs, p) == fs[p].kind = "dir"

\* the files that exist in a directory
Children(fs, d) == {q \in Paths : Exists(fs, q)}

\* a removal that leaves everything in place
RemoveNothing(fs, S) == fs

\* the filesystem once the paths of S are removed; a file that is not there
\* is an orphan once its directory is gone
Remove(fs, S) ==
    [q \in DOMAIN fs |->
        IF q \in S
        THEN [NoFile EXCEPT !.kind = IF q \in Paths /\ S \cap Dirs # {}
                                      THEN "orphan" ELSE "missing"]
        ELSE IF S \cap Dirs # {} /\ q \in Paths /\ fs[q].kind = "missing"
        THEN [fs[q] EXCEPT !.kind = "orphan"]
        ELSE fs[q]]

\* the ProcessingStats ultra_delete builds: warnings is left at its default
DeleteStatsOf(results) ==
    [total_files |-> Len(results),
     successful |-> CountStatus(results, "Success"),
     errors |-> CountStatus(results, "Error"),
     skipped |-> CountStatus(results, "Skipped"),
     warnings |-> DefaultStats.warnings,
     total_bytes |-> DefaultStats.total_bytes]

\* a task of ultra_delete: where it is, whether it found its path, its result
DeleteWorker(pc, existed, result) == [pc |-> pc, existed |-> existed, result |-> result]

\* ultra_delete is called: one task per path
DeleteBegin(paths, dry_run) ==
    /\ api = "ultra_delete"
    /\ call = NoCall
    /\ call' = [fn |-> "ultra_delete", paths |-> paths, dry_run |-> dry_run,
                files0 |-> files]
    /\ workers' = [i \in 1..Len(paths) |-> DeleteWorker("exists", FALSE, NoResult)]
    /\ engine' = NewEngine(DefaultConfig)
    /\ ret' = NoRet
    /\ UNCHANGED <<cache, hist, wf, api, files>>

\* `if !path.exists()`, then `if dry_run`
DeleteExists(i) ==
    LET p == call.paths[i] IN
    /\ workers[i].pc = "exists"
    /\ workers' = [workers EXCEPT ![i] =
          IF ~Exists(files, p)
          THEN DeleteWorker("done", FALSE,
                            Result(p, "Skipped", << <<"File does not exist">> >>))
          ELSE IF call.dry_run
          THEN DeleteWorker("done", TRUE,
                            Result(p, "Warning", << <<"[DRY_RUN] Would delete this file">> >>))
          ELSE DeleteWorker("remove", TRUE, NoResult)]
    /\ UNCHANGED <<cache, hist, wf, api, files, engine, call, ret>>

\* fs::remove_dir_all of a directory, fs::remove_file of anything else; a
\* directory that holds a protected file is removed in part at most
DeleteRemove(i) ==
    LET p == call.paths[i]
        deleted == DeleteWorker("done", TRUE,
                                Result(p, "Success", << <<"Deleted successfully">> >>))
        failed == DeleteWorker("done", TRUE, Result(p, "Error", << <<"Delete failed">> >>))
    IN
    /\ workers[i].pc = "remove"
    /\ IF IsDir(files, p)
       THEN LET kids == Children(files, p)
                blocked == {q \in kids : ~files[q].writable}
            IN IF blocked = {}
               THEN /\ files' = Remove(files, {p} \cup kids)
                    /\ workers' = [workers EXCEPT ![i] = deleted]
               ELSE /\ \E S \in SUBSET (kids \ blocked) : files' = Remove(files, S)
                    /\ workers' = [workers EXCEPT ![i] = failed]
       ELSE IF Exists(files, p) /\ files[p].writable
       THEN /\ files' = Remove(files, {p})
            /\ workers' = [workers EXCEPT ![i] = deleted]
       ELSE /\ workers' = [workers EXCEPT ![i] = failed]
            /\ UNCHANGED files
    /\ UNCHANGED <<cache, hist, wf, api, engine, call, ret>>

\* .collect(), the stats and the return of ultra_delete
DeleteReturn ==
    /\ call.fn = "ultra_delete"
    /\ ret = NoRet
    /\ \A i \in 1..Len(workers) : workers[i].pc = "done"
    /\ LET results == [i \in 1..Len(workers) |-> workers[i].result]
       IN ret' = [fn |-> "ultra_delete", ok |-> TRUE, results |-> results,
                  stats |-> DeleteStatsOf(results)]
    /\ workers' = <<>>
    /\ UNCHANGED <<cache, hist, wf, api, files, engine, call>>

-----------------------------------------------------------------------------
(* CodeAnalyzer::scan_files *)

\* the entries the walk yields that pass the two filters
Scanned(fs, extension, use_gitignore, include_hidden) ==
    {n \in ScanNames :
        /\ Exists(fs, n)
        /\ include_hidden \/ ~IsHidden(n)
        /\ ~use_gitignore \/ ~IsIgnored(n)
        /\ fs[n].kind # "dir"
        /\ SameExtension(Extension(n), extension)}

\* CodeAnalyzer::scan_files; the walk runs on several threads and yields
\* the entries in any order
ScanFiles(root_path, extension, use_gitignore, include_hidden) ==
    /\ api = "scan_files"
    /\ call = NoCall
    /\ call' = [fn |-> "scan_files", root_path |-> root_path, extension |-> extension,
                use_gitignore |-> use_gitignore, include_hidden |-> include_hidden]
    /\ IF ~Exists(files, root_path) \/ ~IsDir(files, root_path)
       THEN ret' = [fn |-> "scan_files", ok |-> FALSE,
                    error |-> <<"InvalidDirectory", root_path>>]
       ELSE \E found \in Orders(Scanned(files, extension, use_gitignore, include_hidden)) :
               ret' = [fn |-> "scan_files", ok |-> TRUE, files |-> found]
    /\ UNCHANGED <<cache, hist, wf, api, files, engine, workers>>

-----------------------------------------------------------------------------
(* The engine's entry points, with their inputs *)

\* all sequences over S of length lo..hi
SeqsOf(S, lo, hi) == UNION {[1..n -> S] : n \in lo..hi}

\* base repeated to length n
Repeat(base, n) == [i \in 1..n |-> base[((i - 1) % Len(base)) + 1]] \o <<>>

\* the lengths a pattern is repeated to: its own, and those around DirectLimit
BatchLens(base) ==
    {Len(base)} \cup (IF base = <<>> THEN {} ELSE {DirectLimit - 1, DirectLimit})

\* what an operation may return for a file
OpOutcomes ==
    {OpOk(<<"done">>, st) : st \in {"Success", "Warning", "Skipped"}} \cup {OpErr(<<"failed">>)}

\* a text below every threshold tried, and one above
SmallText == <<TokX, NL>>
LargeText == <<TokFill, TokUnwrap, NL>>

\* the files a process_files run starts from: one per branch of process_one
BatchFileSamples ==
    <<NoFile,
      TextFile(SmallText, 1),
      TextFile(LargeText, 1),
      [TextFile(SmallText, 1) EXCEPT !.kind = "binary"],
      [TextFile(LargeText, 1) EXCEPT !.kind = "denied"],
      [TextFile(LargeText, 1) EXCEPT !.kind = "nomap"],
      [TextFile(LargeText, 1) EXCEPT !.kind = "binary"]>>

\* the files an ultra_edit run starts from
EditFileSamples ==
    {NoFile, TextFile(SmallText, 1),
     [NoFile EXCEPT !.kind = "orphan"],
     [NoFile EXCEPT !.writable = FALSE],
     [TextFile(SmallText, 1) EXCEPT !.writable = FALSE],
     [TextFile(SmallText, 1) EXCEPT !.kind = "denied"]}

EditOpLists ==
    {<<OpReplace(<<TokX>>, <<SP>>)>>,
     <<OpAppend(<<TokX>>)>>,
     <<OpRegexReplace(FALSE, <<TokX>>, <<>>), OpRegexReplace(TRUE, <<TokX>>, <<TokX>>)>>}

FileChanges == [path : Paths, operations : EditOpLists]

\* an ultra_* call on a batch: a fresh engine, then process_files
ProcessFiles(cfg, paths, op) ==
    /\ api = "process_files"
    /\ call = NoCall
    /\ \E r \in {process_files(files, NewEngine(cfg), op, paths)} :
          /\ engine' = r.engine
          /\ ret' = [fn |-> "process_files", ok |-> TRUE, results |-> r.results,
                     stats |-> r.stats]
    /\ call' = [fn |-> "process_files", config |-> cfg, paths |-> paths, op |-> op]
    /\ UNCHANGED <<cache, hist, wf, api, files, workers>>

\* the outcome of an operation that is not invoked is immaterial: it is
\* fixed for the paths the batch lacks or process_one cannot read
OpMatters(cfg, base, op) ==
    \A p \in Paths :
        ~(ReachesOperation(files, cfg, p) /\ \E i \in 1..Len(base) : base[i] = p)
            => op[p] = OpOk(<<"done">>, "Success")

InitProcess ==
    /\ api = "process_files"
    \* the two paths are interchangeable: one order of every pair of files
    /\ \E i \in 1..Len(BatchFileSamples), j \in 1..Len(BatchFileSamples) :
          /\ i <= j
          /\ files = [p \in Paths |-> IF p = "a.rs" THEN BatchFileSamples[i]
                                      ELSE BatchFileSamples[j]]
    /\ engine = NewEngine(DefaultConfig)
    /\ call = NoCall
    /\ workers = <<>>
    /\ ret = NoRet
    /\ cache = EmptyCache
    /\ hist = NoHistory(files)
    /\ wf = NoWorkflow

NextProcess ==
    \E cfg \in Configs, base \in SeqsOf(Paths, 0, MaxBase), op \in [Paths -> OpOutcomes] :
        /\ call = NoCall
        /\ OpMatters(cfg, base, op)
        /\ \E n \in BatchLens(base) : ProcessFiles(cfg, Repeat(base, n), op)

SpecProcess == InitProcess /\ [][NextProcess]_vars

InitEdit ==
    /\ api = "ultra_edit"
    /\ files \in [Paths -> EditFileSamples]
    /\ files["b.rs"] \in {NoFile, TextFile(SmallText, 1)}
    /\ engine = NewEngine(DefaultConfig)
    /\ call = NoCall
    /\ workers = <<>>
    /\ ret = NoRet
    /\ cache = EmptyCache
    /\ hist = NoHistory(files)
    /\ wf = NoWorkflow

NextEdit ==
    \/ \E changes \in SeqsOf(FileChanges, 1, MaxChanges), dry_run \in BOOLEAN :
          /\ \A i \in 1..Len(changes) : Len(files[changes[i].path].content) < MaxLen
          /\ EditBegin(changes, dry_run)
    \/ \E i \in 1..Len(workers) : EditExists(i)
    \/ \E i \in 1..Len(workers) : EditCreate(i)
    \/ \E i \in 1..Len(workers) : EditRead(i)
    \/ \E i \in 1..Len(workers) : EditWrite(i)
    \/ EditReturn

SpecEdit == InitEdit /\ [][NextEdit]_vars

\* the tokens a file to repair is made of
RepairAlphabet == {NL, CR, SP, TokUseA, TokX}

InitRepair ==
    /\ api = "repair"
    /\ \E text \in SeqsOf(RepairAlphabet, 0, MaxText), w \in BOOLEAN :
          files = [p \in Paths |-> IF p = "a.rs" THEN [TextFile(text, 1) EXCEPT !.writable = w]
                                   ELSE NoFile]
    /\ engine = NewEngine(DefaultConfig)
    /\ call = NoCall
    /\ workers = <<>>
    /\ ret = NoRet
    /\ cache = EmptyCache
    /\ hist = NoHistory(files)
    /\ wf = NoWorkflow

NextRepair ==
    \E fn \in {"ultra_repair", "repair_project"} : RepairCall(fn, <<"a.rs">>)

SpecRepair == InitRepair /\ [][NextRepair]_vars

\* the operations tried one by one: a Replace that changes the text, one that
\* puts back what it finds, one without a match; an Append of nothing and of
\* a token; a RegexReplace with a malformed pattern, one that reproduces the
\* text and one that changes it
EditOpSamples ==
    {OpReplace(<<TokX>>, <<SP>>), OpReplace(<<TokX>>, <<TokX>>),
     OpReplace(<<TokTodo>>, <<SP>>),
     OpAppend(<<>>), OpAppend(<<TokTodo>>),
     OpRegexReplace(FALSE, <<TokX>>, <<SP>>), OpRegexReplace(TRUE, <<TokX>>, <<TokX>>),
     OpRegexReplace(TRUE, <<TokX>>, <<NL>>)}

\* a text with two occurrences of a token
TwoX == <<TokX, NL, TokX>>

InitEditOps ==
    /\ api = "ultra_edit"
    /\ files \in [Paths -> {NoFile, TextFile(TwoX, 1),
                            [TextFile(TwoX, 1) EXCEPT !.writable = FALSE],
                            [TextFile(TwoX, 1) EXCEPT !.kind = "binary"]}]
    /\ files["b.rs"] = NoFile
    /\ engine = NewEngine(DefaultConfig)
    /\ call = NoCall
    /\ workers = <<>>
    /\ ret = NoRet
    /\ cache = EmptyCache
    /\ hist = NoHistory(files)
    /\ wf = NoWorkflow

\* one FileChange, issued up to MaxCalls times
NextEditOps ==
    \/ \E ops \in SeqsOf(EditOpSamples, 0, MaxEditOps), dry_run \in BOOLEAN :
          EditBegin(<<[path |-> "a.rs", operations |-> ops]>>, dry_run)
    \/ \E i \in 1..Len(workers) : EditExists(i)
    \/ \E i \in 1..Len(workers) : EditCreate(i)
    \/ \E i \in 1..Len(workers) : EditRead(i)
    \/ \E i \in 1..Len(workers) : EditWrite(i)
    \/ EditReturn
    \/ EditAgain

SpecEditOps == InitEditOps /\ [][NextEditOps]_vars

\* the contents a file is given
CacheTexts == {<<TokX, NL>>, <<TokUnwrap, NL>>, <<TokUseA, NL, TokVecNew, NL>>}

\* the files an analyzer run starts from
CacheFileSamples ==
    {TextFile(<<TokX, NL>>, 1), NoFile,
     [TextFile(<<TokX, NL>>, 1) EXCEPT !.kind = "denied"],
     [TextFile(<<TokX, NL>>, 1) EXCEPT !.kind = "nomap"],
     [TextFile(<<TokUnwrap, NL>>, 1) EXCEPT !.kind = "binary"]}

InitCache ==
    /\ api = "analyze_file"
    /\ files \in [Paths -> CacheFileSamples]
    /\ files["a.rs"] = TextFile(<<TokX, NL>>, 1)
    /\ engine = NewEngine(DefaultConfig)
    /\ call = NoCall
    /\ workers = <<>>
    /\ ret = NoRet
    /\ cache = EmptyCache
    /\ hist = NoHistory(files)
    /\ wf = NoWorkflow

NextCache ==
    \/ \E p \in Paths : AnalyzeFile(p)
    \/ \E p \in Paths, c \in CacheTexts, t \in 1..MaxTime : Modify(p, c, t)

SpecCache == InitCache /\ [][NextCache]_vars

\* the files a workflow run starts from: an unchecked unwrap with trailing
\* whitespace, a heavy clone that formatting brings to the size limit, a
\* clean text, a text that is not UTF-8, a duplicated import
UnwrapText == <<TokUnwrap, SP, NL>>
ClonePadded == <<TokFill, TokClone, SP, SP, NL>>
CleanText == <<TokX, NL>>
ImportText == <<TokUseA, NL, TokUseA, NL, TokTodo>>

WorkflowFileSamples ==
    <<TextFile(UnwrapText, 1),
      TextFile(ClonePadded, 1),
      TextFile(CleanText, 1),
      [TextFile(UnwrapText, 1) EXCEPT !.kind = "binary"],
      [TextFile(ImportText, 1) EXCEPT !.writable = FALSE],
      NoFile>>

\* the steps a request is made of
ScanSamples == {Scan("src", Some("rs")), Scan("gone", None)}

FilterSamples ==
    {Filter(Pattern(FALSE, <<>>), None),
     Filter(Pattern(TRUE, <<TokUnwrap>>), None),
     Filter(Pattern(TRUE, <<TokUnwrap>>), Some(TRUE))}

EvolveSamples ==
    {Evolve(m, d) : m \in {None} \cup {Some(n) : n \in 0..MaxIter},
                    d \in {None, Some(TRUE), Some(FALSE)}}

StepSamples ==
    ScanSamples \cup FilterSamples \cup EvolveSamples
    \cup {AnalyzeStep, RepairStep, EditStep(<<OpAppend(<<TokUnwrap>>)>>)}

\* a request: a scan, then up to MaxSteps more steps; dry_run matters to the
\* Edit step only
Requests ==
    {[steps |-> <<first>> \o rest, dry_run |-> d] :
        first \in ScanSamples, rest \in SeqsOf(StepSamples, 0, MaxSteps),
        d \in {None, Some(TRUE)}}

HasEdit(request) == \E i \in 1..Len(request.steps) : request.steps[i].type = "Edit"

InitWorkflow ==
    /\ api = "ultra_workflow"
    /\ \E i \in 1..Len(WorkflowFileSamples), j \in 1..Len(WorkflowFileSamples) :
          /\ i <= j
          /\ files = [p \in Paths |-> IF p = "a.rs" THEN WorkflowFileSamples[i]
                                      ELSE WorkflowFileSamples[j]]
    /\ engine = NewEngine(DefaultConfig)
    /\ call = NoCall
    /\ workers = <<>>
    /\ ret = NoRet
    /\ cache = EmptyCache
    /\ hist = NoHistory(files)
    /\ wf = NoWorkflow

NextWorkflow ==
    \/ \E request \in Requests :
          /\ call = NoCall
          /\ request.dry_run # None => HasEdit(request)
          /\ WorkflowBegin(request, DefaultConfig)
    \/ StepScan
    \/ StepFilter
    \/ StepAnalyze
    \/ StepEdit
    \/ StepRepair
    \/ EvolveBegin
    \/ EvolveIterate
    \/ EvolveExit
    \/ WorkflowReturn

SpecWorkflow == InitWorkflow /\ [][NextWorkflow]_vars

\* the files a batch analysis starts from: clean, with a warning, readable
\* but not mappable, not UTF-8, absent
AnalyzeFileSamples ==
    {TextFile(CleanText, 1), TextFile(UnwrapText, 1),
     [TextFile(CleanText, 1) EXCEPT !.kind = "nomap"],
     [TextFile(CleanText, 1) EXCEPT !.kind = "binary"],
     NoFile}

InitAnalyze ==
    /\ api \in {"ultra_analyze", "ultra_workflow"}
    /\ files \in [Paths -> AnalyzeFileSamples]
    /\ engine = NewEngine(DefaultConfig)
    /\ call = NoCall
    /\ workers = <<>>
    /\ ret = NoRet
    /\ cache = EmptyCache
    /\ hist = NoHistory(files)
    /\ wf = NoWorkflow

\* a batch analysis: ultra_analyze on a batch, or a workflow that scans
\* and analyzes
NextAnalyze ==
    \/ \E paths \in SeqsOf(Paths, 1, MaxBase) : UltraAnalyze(DefaultConfig, paths)
    \/ /\ call = NoCall
       /\ WorkflowBegin([steps |-> <<Scan("src", Some("rs")), AnalyzeStep>>, dry_run |-> None],
                        DefaultConfig)
    \/ StepScan
    \/ StepAnalyze
    \/ WorkflowReturn

SpecAnalyze == InitAnalyze /\ [][NextAnalyze]_vars

\* a scan followed by one Evolve step
EvolveRequests ==
    {[steps |-> <<first, e>>, dry_run |-> None] : first \in ScanSamples, e \in EvolveSamples}

NextEvolve ==
    \/ \E request \in EvolveRequests :
          /\ call = NoCall
          /\ WorkflowBegin(request, DefaultConfig)
    \/ StepScan
    \/ EvolveBegin
    \/ EvolveIterate
    \/ EvolveExit
    \/ WorkflowReturn

\* the workflows of one Evolve step; the thread that runs the loop is never
\* held back for ever
SpecEvolveLive ==
    InitWorkflow /\ [][NextEvolve]_vars /\ WF_vars(EvolveIterate) /\ WF_vars(EvolveExit)

\* contents for the Evolve analysis: two fixable patterns in one file, and
\* a large file with .clone() that has no trailing whitespace to lose
TwoMarkers == <<TokUnwrap, NL, TokVecNew, NL>>
CloneSolid == <<TokFill, TokClone, TokX, TokX, NL>>

\* the files an Evolve step analyzes
EvolveFileSamples ==
    {TextFile(TwoMarkers, 1), TextFile(ClonePadded, 1), TextFile(CloneSolid, 1),
     TextFile(CleanText, 1), [TextFile(UnwrapText, 1) EXCEPT !.kind = "binary"], NoFile}

InitEvolve ==
    /\ api = "ultra_workflow"
    /\ files \in [Paths -> EvolveFileSamples]
    /\ engine = NewEngine(DefaultConfig)
    /\ call = NoCall
    /\ workers = <<>>
    /\ ret = NoRet
    /\ cache = EmptyCache
    /\ hist = NoHistory(files)
    /\ wf = NoWorkflow

\* the workflows of one Evolve step over these files
SpecEvolve == InitEvolve /\ [][NextEvolve]_vars

\* one step of each type
PipelineSteps ==
    {Scan("src", Some("rs")), Filter(Pattern(TRUE, <<TokUnwrap>>), None), AnalyzeStep,
     EditStep(<<OpAppend(<<TokUnwrap>>)>>), RepairStep, Evolve(Some(1), Some(FALSE))}

\* requests whose steps come in any order, a Scan first or not, with
\* dry_run left out or set
PipelineRequests ==
    {[steps |-> steps, dry_run |-> d] :
        steps \in SeqsOf(PipelineSteps, 1, MaxPipeline), d \in {None, Some(TRUE)}}

\* the directory holds a file with an issue and trailing whitespace, and a
\* second file that is clean, unreadable or missing
InitPipeline ==
    /\ api = "ultra_workflow"
    /\ \E second \in {TextFile(CleanText, 1),
                       [TextFile(UnwrapText, 1) EXCEPT !.kind = "binary"], NoFile} :
          files = [p \in Paths |-> IF p = "a.rs" THEN TextFile(UnwrapText, 1) ELSE second]
    /\ engine = NewEngine(DefaultConfig)
    /\ call = NoCall
    /\ workers = <<>>
    /\ ret = NoRet
    /\ cache = EmptyCache
    /\ hist = NoHistory(files)
    /\ wf = NoWorkflow

NextPipeline ==
    \/ \E request \in PipelineRequests : WorkflowBegin(request, DefaultConfig)
    \/ StepScan
    \/ StepFilter
    \/ StepAnalyze
    \/ StepEdit
    \/ StepRepair
    \/ EvolveBegin
    \/ EvolveIterate
    \/ EvolveExit
    \/ WorkflowReturn

SpecPipeline == InitPipeline /\ [][NextPipeline]_vars

\* a run of either entry point
SpecEngine == (InitProcess \/ InitEdit) /\ [][NextProcess \/ NextEdit]_vars

\* the files an ultra_delete run starts from: a file, no file, a file that
\* is protected against removal
DeleteFileSamples ==
    {TextFile(CleanText, 1), NoFile, [TextFile(CleanText, 1) EXCEPT !.writable = FALSE]}

InitDelete ==
    /\ api = "ultra_delete"
    /\ files \in [DeleteTargets -> DeleteFileSamples \cup {Directory}]
    /\ \A p \in DeleteTargets : (files[p] = Directory) <=> (p \in Dirs)
    /\ engine = NewEngine(DefaultConfig)
    /\ call = NoCall
    /\ workers = <<>>
    /\ ret = NoRet
    /\ cache = EmptyCache
    /\ hist = NoHistory(files)
    /\ wf = NoWorkflow

NextDelete ==
    \/ \E paths \in SeqsOf(DeleteTargets, 0, MaxDelete), dry_run \in BOOLEAN :
          DeleteBegin(paths, dry_run)
    \/ \E i \in 1..Len(workers) : DeleteExists(i)
    \/ \E i \in 1..Len(workers) : DeleteRemove(i)
    \/ DeleteReturn

SpecDelete == InitDelete /\ [][NextDelete]_vars

\* scan_files is called on a root that is a directory, a regular file or
\* missing; below a directory any of the entries may exist
ScanTrees ==
    {[n \in ScanNames \cup {ScanRoot} \cup Paths |->
         IF n = ScanRoot THEN root
         ELSE IF n \in present
              THEN [NoFile EXCEPT !.kind = EntryKind(n), !.mtime = 1]
              ELSE NoFile] :
        root \in {Directory}, present \in SUBSET ScanNames}
    \cup {[n \in ScanNames \cup {ScanRoot} \cup Paths |->
              IF n = ScanRoot THEN root ELSE NoFile] :
             root \in {NoFile, [NoFile EXCEPT !.kind = "text", !.mtime = 1]}}

InitScan ==
    /\ api = "scan_files"
    /\ files \in ScanTrees
    /\ engine = NewEngine(DefaultConfig)
    /\ call = NoCall
    /\ workers = <<>>
    /\ ret = NoRet
    /\ cache = EmptyCache
    /\ hist = NoHistory(files)
    /\ wf = NoWorkflow

NextScan ==
    \E extension \in {"rs", "RS", "txt", "md"} :
    \E use_gitignore \in BOOLEAN :
    \E include_hidden \in BOOLEAN :
        ScanFiles(ScanRoot, extension, use_gitignore, include_hidden)

SpecScan == InitScan /\ [][NextScan]_vars

\* a workflow of one Scan step over the same trees
InitScanStep ==
    /\ api = "ultra_workflow"
    /\ files \in ScanTrees
    /\ engine = NewEngine(DefaultConfig)
    /\ call = NoCall
    /\ workers = <<>>
    /\ ret = NoRet
    /\ cache = EmptyCache
    /\ hist = NoHistory(files)
    /\ wf = NoWorkflow

NextScanStep ==
    \/ \E extension \in {"rs", "RS", "txt", "md"} :
          WorkflowBegin([steps |-> <<Scan(ScanRoot, Some(extension))>>, dry_run |-> None],
                        DefaultConfig)
    \/ StepScan
    \/ WorkflowReturn

SpecScanStep == InitScanStep /\ [][NextScanStep]_vars

\* the tokens of the contents whose lines are counted
LineAlphabet == {NL, SP, TokX, TokComment}

\* the tokens of the contents whose complexity is estimated
ComplexityAlphabet == {TokFn, TokIfBare, TokIfParen, TokElse, TokMatch, TokFor, TokWhile}

\* analyze_file is called on a file of any content over one of the two
\* alphabets
InitContent ==
    /\ api = "analyze_file"
    /\ \E c \in SeqsOf(LineAlphabet, 1, MaxText) \cup SeqsOf(ComplexityAlphabet, 1, MaxText) :
          files = [n \in Paths |-> IF n = "a.rs" THEN TextFile(c, 1) ELSE NoFile]
    /\ engine = NewEngine(DefaultConfig)
    /\ call = NoCall
    /\ workers = <<>>
    /\ ret = NoRet
    /\ cache = EmptyCache
    /\ hist = NoHistory(files)
    /\ wf = NoWorkflow

NextContent == \E p \in Paths : AnalyzeFile(p)

SpecContent == InitContent /\ [][NextContent]_vars

\* one warning of each kind that calculate_security_score tells apart
WarningSamples ==
    {"password_hardcoded", "py_eval", "unsafe_block", "static_mut"}

\* the tokens of the contents searched for warnings
WarningAlphabet == {TokX, TokPassword, TokEval, TokUnsafe}

\* the extensions of the files searched
WarningExtensions == {"rs", "py", "txt"}

\* calculate_security_score on a list of warnings
SecurityScore(warnings) ==
    /\ api = "calculate_security_score"
    /\ call = NoCall
    /\ call' = [fn |-> "calculate_security_score", warnings |-> warnings]
    /\ ret' = [fn |-> "calculate_security_score", score |-> calculate_security_score(warnings)]
    /\ UNCHANGED <<api, files, engine, workers, cache, hist, wf>>

\* detect_warnings on a content and the score of what it finds, as
\* analyze_file computes them (lines 109 and 122)
DetectWarnings(content, ext) ==
    /\ api = "calculate_security_score"
    /\ call = NoCall
    /\ call' = [fn |-> "detect_warnings", content |-> content, ext |-> ext]
    /\ \E warnings \in {detect_warnings_of(content, ext)} :
          ret' = [fn |-> "detect_warnings", warnings |-> warnings,
                  score |-> calculate_security_score(warnings)]
    /\ UNCHANGED <<api, files, engine, workers, cache, hist, wf>>

InitScore ==
    /\ api = "calculate_security_score"
    /\ files = [n \in Paths |-> NoFile]
    /\ engine = NewEngine(DefaultConfig)
    /\ call = NoCall
    /\ workers = <<>>
    /\ ret = NoRet
    /\ cache = EmptyCache
    /\ hist = NoHistory(files)
    /\ wf = NoWorkflow

NextScore ==
    \/ \E warnings \in SeqsOf(WarningSamples, 0, MaxWarnings) : SecurityScore(warnings)
    \/ \E content \in SeqsOf(WarningAlphabet, 0, MaxText), ext \in WarningExtensions :
          DetectWarnings(content, ext)

SpecScore == InitScore /\ [][NextScore]_vars

-----------------------------------------------------------------------------
(* Properties of the batch engine *)

StatusSum(st) == st.successful + st.errors + st.warnings + st.skipped

\* C1: every process_files and every ultra_edit call returns stats whose
\* total_files is the number of input items and whose four status counts
\* add up to total_files.
C1_StatsPartition ==
    ret.fn \in {"process_files", "ultra_edit"} =>
        LET n == IF ret.fn = "process_files" THEN Len(call.paths) ELSE Len(call.changes)
        IN /\ ret.stats.total_files = n
           /\ StatusSum(ret.stats) = n

\* a chunked batch with errors and warnings in it has returned
C1_Witness ==
    /\ ret.fn = "process_files"
    /\ Len(call.paths) >= DirectLimit
    /\ ret.stats.errors > 0
    /\ ret.stats.warnings > 0

\* s without its i-th item
RemoveAt(s, i) == SubSeq(s, 1, i - 1) \o SubSeq(s, i + 1, Len(s))

\* process_one fails on the i-th path of the call: a stat, open, map or
\* read failure, or the operation returning an error
FailsAt(i) ==
    \/ ~ReachesOperation(files, call.config, call.paths[i])
    \/ ~call.op[call.paths[i]].ok

\* the positions at which removal is tried: the first and the last MaxBase
\* ones (every path of a batch is among them, and so is the removal that
\* takes a batch of DirectLimit paths below the limit)
RemovalPositions(n) == {i \in 1..n : i <= MaxBase \/ i > n - MaxBase}

\* C2: process_files returns one result per input path, in order; a failing
\* path gets an Error result, the call still returns Ok, and the other
\* paths' results are those of the batch without the failing path.
C2_FailureIsLocal ==
    ret.fn = "process_files" =>
        /\ ret.ok
        /\ Len(ret.results) = Len(call.paths)
        /\ \A i \in 1..Len(call.paths) :
              /\ ret.results[i].path = call.paths[i]
              /\ FailsAt(i) => ret.results[i].status = "Error"
              /\ ret.results[i] = FanOut(files, call.config, call.op, <<call.paths[i]>>)[1]
        /\ \A i \in RemovalPositions(Len(call.paths)) :
              FailsAt(i) =>
                  RemoveAt(ret.results, i) =
                      FanOut(files, call.config, call.op, RemoveAt(call.paths, i))

\* a chunked batch in which one path fails and the other succeeds
C2_Witness ==
    /\ ret.fn = "process_files"
    /\ Len(call.paths) = DirectLimit
    /\ FailsAt(1)
    /\ ~FailsAt(2)
    /\ ret.results[2].status = "Success"

\* how many times r is in rs
CountOf(rs, r) == Cardinality({i \in 1..Len(rs) : rs[i] = r})

SameMultiset(rs, ss) ==
    \A r \in Range(rs) \cup Range(ss) : CountOf(rs, r) = CountOf(ss, r)

\* C6: on the input of any call, direct and chunked fan-out give the same
\* multiset of results and the same status counts, for the call's
\* chunk_size (0 taken as 1); chunking neither drops nor repeats a path.
C6_FanOutsAgree ==
    ret.fn = "process_files" =>
        \E d \in {DirectFanOut(files, call.config, call.op, call.paths)},
           c \in {ChunkedFanOut(files, call.config, call.op, call.paths)} :
            /\ SameMultiset(d, c)
            /\ \A st \in Statuses : CountStatus(d, st) = CountStatus(c, st)
            /\ \A p \in Paths :
                  Cardinality({i \in 1..Len(c) : c[i].path = p}) = Occurrences(call.paths, p)
            /\ SameMultiset(ret.results, d)

\* a batch at the limit, whose last chunk is a partial one, with two
\* different statuses in it
C6_Witness ==
    /\ ret.fn = "process_files"
    /\ Len(call.paths) = DirectLimit
    /\ call.config.chunk_size = DefaultChunkSize
    /\ ret.stats.errors > 0
    /\ ret.stats.successful > 0

-----------------------------------------------------------------------------
(* Properties of the analyzer's cache *)

\* the last call was an analyze_file that returned a FileAnalysis
AnalyzeReturned == ret.fn = "analyze_file" /\ ret.ok

\* the cache held, when the call was made, an entry of the path with the
\* file's modification timestamp
EntryWasCurrent == call.exists /\ \E e \in call.entry : e.ts = call.file.mtime

\* C3: analyze_file returns the cached FileAnalysis without recomputing if
\* and only if the cache holds an entry of the path whose timestamp is the
\* file's current modification timestamp; the value of such a hit is the
\* FileAnalysis that was first computed and returned for the path at that
\* timestamp.
C3_HitIffTimestampMatches ==
    ret.fn = "analyze_file" =>
        LET hit == ret.ok /\ ~ret.computed IN
        /\ hit <=> EntryWasCurrent
        /\ hit => /\ ret.value = {e.value : e \in call.entry}
                  /\ \A v \in ret.value : Entry(call.file.mtime, v) \in call.hist.returned
                  /\ cache[call.path] = call.entry

\* a hit has happened on a file that was analyzed before at this timestamp
C3_Witness ==
    /\ AnalyzeReturned
    /\ ~ret.computed
    /\ EntryWasCurrent
    /\ call.hist.analyzed

\* C4: an analyze_file that finds an entry of the path with another
\* timestamp than the file's leaves, when it returns, the file's current
\* timestamp and the newly computed FileAnalysis in the cache.
C4_StaleEntryOverwritten ==
    (/\ AnalyzeReturned
     /\ call.entry # {}
     /\ ~EntryWasCurrent)
    => cache[call.path] = {Entry(call.file.mtime, v) : v \in ret.value}

\* the analysis of the content the file had when the call was made
CurrentAnalysis == Analysis(call.path, call.file.content)

\* C5 as stated: once an analyzed file has been modified, every analyze_file
\* returns the analysis of the content the file has at the call.
C5_NeverStaleAfterModification ==
    (AnalyzeReturned /\ call.hist.modified) => ret.value = {CurrentAnalysis}

\* C5: once an analyzed file has been modified, every analyze_file returns
\* the analysis of the content the file has at the call, provided no
\* modification gave the file a timestamp it had had before.
C5_NeverStaleWithFreshTimestamps ==
    (AnalyzeReturned /\ call.hist.modified /\ ~call.hist.reused)
    => ret.value = {CurrentAnalysis}

\* an analyzed file was modified, with a timestamp it never had, and then
\* analyzed again while the cache still held the entry of the old version
C5_Witness ==
    /\ AnalyzeReturned
    /\ call.hist.modified
    /\ ~call.hist.reused
    /\ call.entry # {}
    /\ \A e \in call.entry : e.value # CurrentAnalysis

-----------------------------------------------------------------------------
(* Properties of the workflow engine *)

\* an Evolve step has been entered in this run
EvolveStarted == wf.status # "none" /\ wf.evolve.started

\* the Evolve step last entered, and its iteration cap as the request states it
EvolveStep == wf.steps[wf.evolve.at]
Cap == IF EvolveStep.max_iterations = None THEN DefaultMaxIterations
       ELSE CHOOSE n \in EvolveStep.max_iterations : TRUE

\* the loop has been left
EvolveOver == EvolveStarted /\ ~wf.evolve.active

\* what the Evolve step has appended to the result log
EvolveLog ==
    SubSeq(wf.all_results, wf.evolve.log0 + 1,
           IF wf.evolve.active THEN Len(wf.all_results) ELSE wf.evolve.log1)

IterPaths == {IterPath(n) : n \in 1..9}
IterEntries == SelectSeq(EvolveLog, LAMBDA r : r.path \in IterPaths)
CompleteEntries == SelectSeq(EvolveLog, LAMBDA r : r.path = "EVOLVE_COMPLETE")

\* the iterations run so far: one analysis each
Iterations == Len(wf.evolve.issues)

C7_Bounded ==
    EvolveStarted =>
        /\ Iterations <= Cap
        /\ Len(IterEntries) <= Cap
        /\ \A k \in 1..Len(IterEntries) : IterEntries[k].path = IterPath(k)
        /\ Cap = 0 => Iterations = 0 /\ EvolveLog = <<>>

\* C7: an Evolve step runs at most max_iterations iterations (5 when
\* omitted) and then ends, whatever the issue counts are; its EVOLVE_ITER
\* entries are numbered 1, 2, ... and are at most max_iterations; with
\* max_iterations = 0 it analyzes nothing and logs nothing.
C7_EvolveTerminates ==
    /\ []C7_Bounded
    /\ (EvolveStarted /\ wf.evolve.active) ~> EvolveOver

\* an Evolve step ended by its cap, never having found zero issues
C7_Witness ==
    /\ EvolveOver
    /\ Cap > 0
    /\ Iterations = Cap
    /\ Len(IterEntries) = Cap
    /\ \A k \in 1..Iterations : wf.evolve.issues[k] > 0

\* the step asks for a dry run, or leaves dry_run out
DryRequested == EvolveStep.dry_run \in {None, Some(TRUE)}

\* the analysis finds a fixable issue in an active file, as the files were
\* when the Evolve step was entered
HadFixable ==
    \E i \in 1..Len(wf.evolve.paths0) :
        LET p == wf.evolve.paths0[i] IN
        /\ ReachesOperation(wf.evolve.files0, wf.config, p)
        /\ FixableFindings(wf.evolve.files0[p].content) # <<>>

\* C8: a dry-run Evolve step (dry_run true or omitted) over active files of
\* which one has a fixable issue logs, in every iteration, the same nonzero
\* issue count with zero fixes; it logs nothing else, no EVOLVE_COMPLETE,
\* runs no repair, writes no file, leaves the successful count as it was,
\* and has run exactly max_iterations iterations when it ends.
C8_DryRunEvolve ==
    (EvolveStarted /\ DryRequested /\ HadFixable) =>
        /\ EvolveLog = IterEntries
        /\ \A k \in 1..Len(IterEntries) :
              /\ IterEntries[k].findings = IterEntries[1].findings
              /\ IterEntries[k].findings[1][2] # "0"
              /\ IterEntries[k].findings[1][4] = "0"
        /\ \A k \in 1..Iterations : wf.evolve.issues[k] = wf.evolve.issues[1]
        /\ wf.evolve.repairs = 0
        /\ wf.evolve.active => /\ files = wf.evolve.files0
                               /\ wf.stats.successful = wf.evolve.successful0
        /\ EvolveOver => Iterations = Cap /\ Len(IterEntries) = Cap

\* a dry run left out of the request has run all the iterations of the
\* default cap over a file with an issue
C8_Witness ==
    /\ EvolveOver
    /\ EvolveStep.dry_run = None
    /\ EvolveStep.max_iterations = None
    /\ HadFixable
    /\ Len(IterEntries) = DefaultMaxIterations

\* C9: the Evolve step logs EVOLVE_COMPLETE exactly when an analysis finds
\* zero fixable issues: once, with the 0-based index of that iteration, as
\* its last entry; that iteration runs no repair and is the last one.
C9_Convergence ==
    EvolveStarted =>
        LET issues == wf.evolve.issues
            zero == {k \in 1..Len(issues) : issues[k] = 0}
        IN /\ zero \subseteq {Len(issues)}
           /\ Len(CompleteEntries) = Cardinality(zero)
           /\ zero # {} =>
                 /\ EvolveLog[Len(EvolveLog)] =
                       Result("EVOLVE_COMPLETE", "Success",
                              << <<"No more issues after", Digits(Len(issues) - 1),
                                   "iterations">> >>)
                 /\ Len(IterEntries) = Len(issues) - 1
                 /\ wf.evolve.repairs <= Len(issues) - 1
                 /\ ~ENABLED EvolveIterate
           /\ wf.evolve.repairs =
                 IF IsDry(EvolveStep.dry_run) THEN 0 ELSE Len(issues) - Cardinality(zero)

\* an Evolve step that repairs has converged in its second iteration
C9_Witness ==
    /\ EvolveOver
    /\ Len(CompleteEntries) = 1
    /\ wf.evolve.issues = <<1, 0>>
    /\ wf.evolve.repairs = 1

\* the step is a Scan of a path that does not exist or a Filter with a
\* pattern that does not compile
Fatal(step) ==
    \/ /\ step.type = "Scan"
       /\ step.path \notin Dirs
       /\ step.path \in Paths => ~Exists(files, step.path)
    \/ /\ step.type = "Filter"
       /\ ~step.pattern.valid

C10_NoStepPastFatal ==
    wf.status # "none" =>
        /\ \A k \in 1..Len(wf.steps) : k < wf.pc => ~Fatal(wf.steps[k])
        /\ wf.status = "failed" =>
              /\ Fatal(Step)
              /\ ret.fn = "ultra_workflow"
              /\ ~ret.ok
              /\ DOMAIN ret = {"fn", "ok", "error"}
        /\ wf.status = "done" => ret.fn = "ultra_workflow" /\ ret.ok

\* C10: a workflow never gets past a Scan step whose path does not exist or
\* a Filter step whose pattern is invalid: at that step it returns an error
\* that carries neither results nor stats, and nothing happens afterwards.
C10_FatalStepAborts ==
    /\ []C10_NoStepPastFatal
    /\ [][wf.status # "failed"]_vars

\* a workflow has failed at a step that is not its last
C10_Witness ==
    /\ wf.status = "failed"
    /\ wf.pc < Len(wf.steps)
    /\ ~ret.ok

\* the content of the file can be read and matches the pattern
MatchesPattern(fs, pattern, p) ==
    CanReadToString(fs, p) /\ Contains(fs[p].content, pattern.lit)

\* the Filter step that is taking place keeps the file: it matches and invert
\* is unset, or it does not match and invert is set
FilterSelects(p) ==
    IF unwrap_or(Step.invert, FALSE)
    THEN ~MatchesPattern(files, Step.pattern, p)
    ELSE MatchesPattern(files, Step.pattern, p)

\* C11: a Filter step leaves as active set the subsequence, in order, of the
\* files that match the pattern (without invert) or do not match it (with
\* invert), an unreadable file counting as non-matching, and the kept and
\* rejected counts it logs sum to the size of the set it started from.
C11_FilterPartition ==
    [][(At("Filter") /\ wf'.status = "running") =>
          /\ wf'.active_files = SelectSeq(wf.active_files, FilterSelects)
          /\ \E kept, rejected \in 0..Len(wf.active_files) :
                /\ kept + rejected = Len(wf.active_files)
                /\ wf'.all_results[Len(wf'.all_results)].findings =
                      << <<"kept", Digits(kept), "rejected", Digits(rejected)>> >>]_vars

-----------------------------------------------------------------------------
(* Properties of ultra_delete *)

\* C12: the stats of every ultra_delete call, a dry run over existing paths
\* included, count as many files as there are input paths and their four
\* status counts add up to that number.
C12_DeleteStatsPartition ==
    ret.fn = "ultra_delete" =>
        /\ ret.stats.total_files = Len(call.paths)
        /\ StatusSum(ret.stats) = ret.stats.total_files

\* the paths a task can have removed: its own and, below a directory, the
\* files in it
TreeOf(p) == IF p \in Dirs THEN {p} \cup Paths ELSE {p}

\* no two inputs of the call name the same path or a directory and a file
\* in it
Disjoint(paths) ==
    \A i, j \in 1..Len(paths) : i # j => TreeOf(paths[i]) \cap TreeOf(paths[j]) = {}

\* the paths whose presence differs between two filesystems
Touched(fs0, fs1) == {q \in DOMAIN fs0 : Exists(fs0, q) # Exists(fs1, q)}

\* the result of the i-th path of the ultra_delete call that has returned is
\* the one its case asks for; a path that another task of the same call
\* removes first (the same path given twice, a file given with its
\* directory) no longer exists when its own task looks for it
DeleteOutcome(i) ==
    LET p == call.paths[i]
        r == ret.results[i]
    IN /\ r.path = p
       /\ IF ~Exists(call.files0, p) THEN r.status = "Skipped"
          ELSE IF call.dry_run THEN r.status = "Warning" /\ Exists(files, p)
          ELSE \/ r.status = "Success" /\ ~Exists(files, p)
               \/ r.status = "Error"
               \/ r.status = "Skipped" /\ ~Exists(files, p) /\ ~Disjoint(call.paths)

\* C19: ultra_delete gives every input path its own result: Skipped for a
\* path that does not exist, Warning for an existing path of a dry run, which
\* stays, Success for an existing path that is removed with all below it, or
\* Error when its removal fails. A dry run and a run over paths that do not
\* exist change nothing on the filesystem, and only existing inputs of a
\* real run lose anything.
C19_DeletePerPath ==
    ret.fn = "ultra_delete" =>
        /\ Len(ret.results) = Len(call.paths)
        /\ \A i \in 1..Len(call.paths) : DeleteOutcome(i)
        /\ call.dry_run => files = call.files0
        /\ \A q \in Touched(call.files0, files) :
              \E i \in 1..Len(call.paths) :
                 /\ q \in TreeOf(call.paths[i])
                 /\ Exists(call.files0, call.paths[i])
                 /\ ret.results[i].status \in {"Success", "Error"}

\* a real run over two files has removed one and failed to remove the other
C19_Witness ==
    /\ ret.fn = "ultra_delete"
    /\ ~call.dry_run
    /\ Disjoint(call.paths)
    /\ \E i, j \in 1..Len(call.paths) :
          /\ ret.results[i].status = "Success"
          /\ ret.results[j].status = "Error"

-----------------------------------------------------------------------------
(* Properties of the workflow's stats *)

\* C13: the stats a completed workflow returns have status counts that add
\* up to total_files, whatever its steps were.
C13_WorkflowStatsPartition ==
    (ret.fn = "ultra_workflow" /\ ret.ok) => StatusSum(ret.stats) = ret.stats.total_files

-----------------------------------------------------------------------------
(* Properties of the byte counter and of ultra_edit's operations *)

\* how many times the batch that has returned holds p with a result other
\* than Error
Succeeded(p) ==
    Cardinality({i \in 1..Len(call.paths) :
                    call.paths[i] = p /\ ret.results[i].status # "Error"})

\* C14: the total_bytes of one process_files call on a fresh engine is the
\* sum of the sizes of the files whose operation returned successfully; a
\* file whose operation fails adds nothing.
C14_BytesOfSuccessesOnly ==
    ret.fn = "process_files" =>
        ret.stats.total_bytes =
            SumSet(Paths, [p \in Paths |-> FileSize(files, p) * Succeeded(p)])

\* the FileChange of the ultra_edit call at hand, its path and its result
TheChange == call.changes[1]
ThePath == TheChange.path
TheResult == ret.results[1]

\* the file as the task of the call finds it: as it was, or created empty
FoundFile ==
    IF Exists(call.files0, ThePath) THEN call.files0[ThePath]
    ELSE WriteFile(call.files0, ThePath, <<>>)[ThePath]

\* an ultra_edit call with one FileChange has returned, and its task could
\* read the file
EditedOne ==
    /\ ret.fn = "ultra_edit"
    /\ Len(call.changes) = 1
    /\ TheResult.findings \notin {<< <<"Failed to create parent dir">> >>,
                                  << <<"Failed to create new file">> >>,
                                  << <<"Read error">> >>}

\* the in-memory content after the first k operations
ContentAfter(k) ==
    apply_ops([content |-> FoundFile.content, applied |-> 0],
              SubSeq(TheChange.operations, 1, k)).content

\* the operations that change the in-memory content
Changing == {k \in 1..Len(TheChange.operations) : ContentAfter(k) # ContentAfter(k - 1)}

\* C15: ultra_edit counts an operation as applied exactly when it changes the
\* in-memory content, so that a FileChange none of whose operations changes
\* the content is Skipped and writes nothing, and any other reports the
\* number of operations that changed it.
C15_AppliedIffChanged ==
    EditedOne =>
        IF Changing = {}
        THEN TheResult.status = "Skipped" /\ files[ThePath] = FoundFile
        ELSE \/ TheResult.findings = << <<"Applied", Digits(Cardinality(Changing)), "edits">> >>
             \/ TheResult.findings = << <<"Write error">> >>

\* the outcome of all operations of the FileChange, in list order, on the
\* content found
Edited == apply_ops([content |-> FoundFile.content, applied |-> 0], TheChange.operations)

AppliedMessage == << <<"Applied", Digits(Edited.applied), "edits">> >>

\* C16: a FileChange whose file can be read is Skipped when no operation was
\* applied and otherwise Success with the number of applied operations, in a
\* dry run as well; the file ends as the fully edited content after a write
\* that succeeds (a write that fails gives Error) and as it was found in
\* every other case, and at no moment of the call does the disk hold anything
\* but the content found or the fully edited content.
C16_AllOrNothing ==
    /\ EditedOne =>
          IF Edited.applied = 0
          THEN TheResult.status = "Skipped" /\ files[ThePath] = FoundFile
          ELSE IF call.dry_run
          THEN /\ TheResult.status = "Success"
               /\ TheResult.findings = AppliedMessage
               /\ files[ThePath] = FoundFile
          ELSE \/ /\ TheResult.status = "Success"
                  /\ TheResult.findings = AppliedMessage
                  /\ files[ThePath].content = Edited.content
               \/ /\ TheResult.status = "Error"
                  /\ TheResult.findings = << <<"Write error">> >>
                  /\ files[ThePath] = FoundFile
    /\ (call.fn = "ultra_edit" /\ Len(call.changes) = 1) =>
          \/ files[ThePath] = call.files0[ThePath]
          \/ files[ThePath] = FoundFile
          \/ /\ files[ThePath].content = Edited.content
             /\ ~call.dry_run
             /\ Edited.applied > 0

\* a real run with two operations, both applied, has written the file
C16_Witness ==
    /\ EditedOne
    /\ ~call.dry_run
    /\ Len(TheChange.operations) = 2
    /\ TheResult.findings = << <<"Applied", "2", "edits">> >>
    /\ files[ThePath].content = Edited.content
    /\ files[ThePath].content # call.files0[ThePath].content

\* the operation is a RegexReplace whose pattern does not compile
Malformed(op) == op.type = "RegexReplace" /\ ~op.valid

\* the FileChange at hand without its malformed operations
WellFormedChange ==
    [path |-> ThePath,
     operations |-> SelectSeq(TheChange.operations, LAMBDA op : ~Malformed(op))]

\* C17: a RegexReplace with a malformed pattern is skipped and nothing else:
\* the call returns, with the result and the file it would have returned and
\* left had the FileChange not held that operation, so the operation is not
\* counted, gives no Error and does not keep the others from being applied.
C17_MalformedPatternSkipped ==
    (ret.fn = "ultra_edit" /\ Len(call.changes) = 1) =>
        LET without == edit_one(call.files0, WellFormedChange, call.dry_run)
        IN /\ ret.ok
           /\ TheResult = without.result
           /\ files[ThePath] = without.file

\* a FileChange whose first operation is malformed has had its second applied
C17_Witness ==
    /\ EditedOne
    /\ Len(TheChange.operations) = 2
    /\ Malformed(TheChange.operations[1])
    /\ TheResult.findings = << <<"Applied", "1", "edits">> >>
    /\ files[ThePath].content # call.files0[ThePath].content

\* the call at hand is a real run of one Replace whose target and
\* replacement have nothing in common, and fs held a readable, writable file
\* with the target in it when the call was first issued
ReplacesIn(fs) ==
    /\ Len(call.changes) = 1
    /\ ~call.dry_run
    /\ Len(TheChange.operations) = 1
    /\ LET op == TheChange.operations[1]
       IN /\ op.type = "Replace"
          /\ op.target # <<>>
          /\ \A i \in 1..Len(op.target), j \in 1..Len(op.replacement) :
                op.target[i] # op.replacement[j]
          /\ Contains(fs[ThePath].content, op.target)
    /\ CanReadToString(fs, ThePath)
    /\ fs[ThePath].writable

-----------------------------------------------------------------------------
(* Properties of the repair operations *)

\* the result of the repair at hand says that it found nothing to change
NothingToRepair ==
    IF call.fn = "ultra_repair"
    THEN /\ ret.results[1].status = "Success"
         /\ ret.results[1].findings = << <<call.paths[1], "CODIGO YA OPTIMO">> >>
    ELSE ret.results[1] = OpOk(<<call.paths[1], "NO REQUIRIO REPARACION">>, "Success")

\* the repair before the one at hand was of the same kind and succeeded
RepairedBefore ==
    /\ call.fn \in {"ultra_repair", "repair_project"}
    /\ call.round > 1
    /\ IF call.fn = "ultra_repair"
       THEN call.before.results[1].status = "Success"
       ELSE call.before.results[1].ok

\* C20: a repair that follows a repair of the same file finds nothing to
\* change, writes nothing and leaves the file as the first repair left it,
\* for the repair of the Repair and Evolve steps and for that of
\* repair_project.
C20_RepairIdempotent ==
    RepairedBefore =>
        /\ files = call.files0
        /\ NothingToRepair

\* a second smart repair has followed one that changed the file
C20_Witness ==
    /\ RepairedBefore
    /\ call.fn = "ultra_repair"
    /\ call.before.results[1].findings # ret.results[1].findings

\* the text has a line that repeats an import above it
HasDuplicateImport(content) == DuplicateImport(Lines(content))

\* the text has three blank lines in a row
HasLongBlankRun(content) ==
    LET lines == Lines(content)
    IN \E i \in 1..(Len(lines) - 2) : \A k \in 0..2 : Trim(lines[i + k]) = <<>>

\* C21: after the repair of the Repair and Evolve steps has succeeded on a
\* file, the file has no duplicate import line and no run of three or more
\* blank lines.
C21_RepairDoesBothCleanups ==
    (ret.fn = "ultra_repair" /\ ret.results[1].status = "Success") =>
        /\ ~HasDuplicateImport(files[call.paths[1]].content)
        /\ ~HasLongBlankRun(files[call.paths[1]].content)

-----------------------------------------------------------------------------
(* Properties of the batch analysis *)

\* the engine reads the file and the analyzer then fails on it: nothing is
\* cached yet, and the file cannot be mapped
AnalyzerFailsOn(p) ==
    /\ p \in Paths
    /\ ReachesOperation(files, DefaultConfig, p)
    /\ ~analyze_file(files, EmptyCache, p).ok

\* C22: in a batch analysis (ultra_analyze, the Analyze step of a workflow)
\* a file that the engine read and on which the analyzer failed has a
\* result of status Error; the batch returns and the other files have the
\* results they have without it.
C22_AnalyzerFailureIsError ==
    (ret.fn \in {"ultra_analyze", "ultra_workflow"} /\ ret.ok) =>
        \A i \in 1..Len(ret.results) :
            AnalyzerFailsOn(ret.results[i].path) => ret.results[i].status = "Error"

-----------------------------------------------------------------------------
(* Properties of the analyzer's scan and analysis *)

\* the root of the scan exists and is a directory
ValidRoot == Exists(files, call.root_path) /\ IsDir(files, call.root_path)

\* C23: scan_files fails with InvalidDirectory exactly when the root is
\* missing or is not a directory; on a valid root it succeeds, every path
\* it returns is an existing regular file whose extension equals the
\* requested one exactly, and no path is returned twice; when no entry
\* matches the result is the empty list and not an error
C23_ScanFiles ==
    ret.fn = "scan_files" =>
        /\ ret.ok <=> ValidRoot
        /\ ~ret.ok => ret.error = <<"InvalidDirectory", call.root_path>>
        /\ ret.ok =>
              /\ \A i \in 1..Len(ret.files) :
                    /\ Exists(files, ret.files[i])
                    /\ files[ret.files[i]].kind = "text"
                    /\ Extension(ret.files[i]) = Some(call.extension)
              /\ \A i, j \in 1..Len(ret.files) : ret.files[i] = ret.files[j] => i = j
              /\ (\A n \in ScanNames :
                     Exists(files, n) /\ files[n].kind = "text"
                        => Extension(n) # Some(call.extension))
                    => ret.files = <<>>

\* a valid root that holds files, a directory named like a match and a file
\* whose extension differs only in case, scanned for an extension that only
\* the directory and the differently-cased file come close to: the scan
\* succeeds with the empty list
C23_Witness ==
    /\ ret.fn = "scan_files"
    /\ ValidRoot
    /\ call.extension = "RS"
    /\ Exists(files, "a.rs")
    /\ Exists(files, "d.rs")
    /\ ~Exists(files, "b.RS")
    /\ ret.ok
    /\ ret.files = <<>>

\* C24: a call of analyze_file on a path that does not exist fails with
\* FileNotFound and leaves the cache as it was: no entry of any path is
\* added, removed or modified
C24_MissingFileLeavesCache ==
    [][(call'.fn = "analyze_file" /\ files' = files /\ ~Exists(files, call'.path))
          => /\ ~ret'.ok
             /\ ret'.error = {"FileNotFound"}
             /\ cache' = cache]_vars

\* analyze_file has failed on a missing path while the cache holds the
\* analysis of another file
C24_Witness ==
    /\ ret.fn = "analyze_file"
    /\ ~call.exists
    /\ ~ret.ok
    /\ ret.error = {"FileNotFound"}
    /\ \E q \in Paths : q # call.path /\ cache[q] # {}
    /\ cache[call.path] = {}

\* the analysis a successful call of analyze_file has returned
Returned == CHOOSE a \in ret.value : TRUE

\* the lines of the analysed content that hold a comment marker
CommentedLines(lines) == {i \in 1..Len(lines) : Contains(lines[i], <<TokComment>>)}

\* C25: the line counts of a FileAnalysis: blank is the number of
\* whitespace-only lines, comment the number of lines that hold a comment
\* marker (a line with several markers counts once), code is total - blank
\* - comment, every count lies between 0 and the total, and code + blank +
\* comment is the total
C25_LineCounts ==
    (ret.fn = "analyze_file" /\ ret.ok) =>
        LET a == Returned
            lines == Lines(call.file.content)
            total == Len(lines)
        IN /\ a.lines_of_code = total
           /\ a.blank_lines = Cardinality(BlankLines(lines))
           /\ a.comment_lines = Cardinality(CommentedLines(lines))
           /\ a.lines_with_code = total - a.blank_lines - a.comment_lines
           /\ \A n \in {a.blank_lines, a.comment_lines, a.lines_with_code} : n \in 0..total
           /\ a.lines_with_code + a.blank_lines + a.comment_lines = total

\* the warnings of the secret or credential class: those the program tags
\* as a security finding
SecretClass ==
    {"google_api_key", "openai_api_key", "password_hardcoded", "py_eval", "py_pickle"}

\* the warnings of the unsafe-memory class
UnsafeClass == {"unsafe_block"}

\* the score the three classes give a list of warnings
ClassScore(warnings) ==
    LET s == CountIn(warnings, SecretClass)
        u == CountIn(warnings, UnsafeClass)
        o == Len(warnings) - s - u
    IN Max(0, FullScore - SecretPenalty * s - UnsafePenalty * u - MinorPenalty * o)

-----------------------------------------------------------------------------
(* Properties of the workflow's steps *)

\* C27: a workflow whose request omits dry_run runs as a dry run: its Edit
\* step writes no file
C27_OmittedDryRunWritesNothing ==
    [][(At("Edit") /\ wf.dry_run = None) => files' = files]_vars

\* every `if` statement, parenthesised or not
EveryIf == {TokIfParen, TokIfBare}

\* C28: the complexity estimate (in tenths) is 10 + 15 per `if` + 5 per
\* `else` + 20 per `match` + 15 per `for` + 15 per `while` + 5 per function
\* declaration, an `if` with an unparenthesised condition counting like any
\* other; a content with one function declaration and two such `if`s is
\* estimated above 2.0 and below 10.0
C28_ComplexityCountsEveryIf ==
    (ret.fn = "analyze_file" /\ ret.ok) =>
        LET c == call.file.content
            e == Returned.complexity_estimate
        IN /\ e = BaseComplexity
                  + 15 * CountIn(c, EveryIf) + 5 * CountIn(c, {TokElse})
                  + 20 * CountIn(c, {TokMatch}) + 15 * CountIn(c, {TokFor})
                  + 15 * CountIn(c, {TokWhile}) + 5 * CountIn(c, {TokFn})
           /\ (CountIn(c, {TokFn}) = 1 /\ CountIn(c, {TokIfBare}) = 2 /\ Len(c) = 3)
                 => (e > 20 /\ e < 100)

\* the fixable-issue markers of the active files, as the files are when an
\* iteration analyzes them; a file that cannot be read has none
MarkersOfActiveFiles ==
    SumSet(1..Len(wf.active_files),
           [i \in 1..Len(wf.active_files) |->
               IF ReachesOperation(files, wf.config, wf.active_files[i])
               THEN Len(FixableFindings(files[wf.active_files[i]].content))
               ELSE 0])

\* C29: the issue count of an Evolve iteration is the total number of
\* fixable-issue markers over the active files: a file with k markers
\* contributes k, an unreadable file 0
C29_IssueCountIsMarkerTotal ==
    [][(wf.status = "running" /\ wf.evolve.active /\ wf'.status = "running"
        /\ Len(wf'.evolve.issues) = Len(wf.evolve.issues) + 1)
          => wf'.evolve.issues[Len(wf'.evolve.issues)] = MarkersOfActiveFiles]_vars

\* C30: in an Evolve step that is not a dry run the repair removes no
\* fixable issue: every iteration logs the same issue count, and a step
\* whose first iteration finds issues runs all max_iterations iterations
\* and logs no convergence, also when the only marker is that of .clone()
\* in a file longer than 5000 bytes
C30_RepairNeverReducesIssues ==
    (EvolveStarted /\ ~wf.evolve.is_dry) =>
        /\ \A k \in 1..Iterations : wf.evolve.issues[k] = wf.evolve.issues[1]
        /\ (Iterations > 0 /\ wf.evolve.issues[1] > 0) =>
              /\ CompleteEntries = <<>>
              /\ EvolveOver => Iterations = Cap

-----------------------------------------------------------------------------
(* Properties of the workflow's state: active files and result log *)

RECURSIVE IsSubsequence(_, _)
\* s can be had from t by leaving items out
IsSubsequence(s, t) ==
    IF s = <<>> THEN TRUE
    ELSE IF t = <<>> THEN FALSE
    ELSE IF Head(s) = Head(t) THEN IsSubsequence(Tail(s), Tail(t))
    ELSE IsSubsequence(s, Tail(t))

\* the workflow takes a step of its loop over the request's steps
WorkflowSteps == wf.status = "running" /\ wf'.status = "running"

\* the entries a step appends to the result log
Appended == SubSeq(wf'.all_results, Len(wf.all_results) + 1, Len(wf'.all_results))

\* no Scan step has run yet
BeforeAnyScan == \A k \in 1..(wf.pc - 1) : k <= Len(wf.steps) => wf.steps[k].type # "Scan"

\* C31: the active files change by Scan and Filter only: after a Scan they
\* are exactly that scan's result, the previous set discarded; after a
\* Filter they are a subsequence of the previous ones; Analyze, Edit,
\* Repair and Evolve leave them as they are; before any Scan they are empty
\* and the steps append no per-file result
C31_ActiveFilesFrame ==
    [][WorkflowSteps =>
          /\ At("Scan") =>
                /\ Range(wf'.active_files) = collect_files(files, Step.path, Step.extension)
                /\ Len(wf'.active_files) = Cardinality(Range(wf'.active_files))
          /\ At("Filter") => IsSubsequence(wf'.active_files, wf.active_files)
          /\ ~(At("Scan") \/ At("Filter")) => wf'.active_files = wf.active_files
          /\ BeforeAnyScan =>
                /\ wf.active_files = <<>>
                /\ ~At("Scan") => \A k \in 1..Len(Appended) : Appended[k].path \notin Paths]_vars

\* a Scan has replaced the one file a Filter had kept of two by the two
\* files it found
C31_Witness ==
    /\ wf.status = "running"
    /\ Len(wf.steps) = 3
    /\ wf.pc = 4
    /\ wf.steps[1].type = "Scan" /\ wf.steps[2].type = "Filter" /\ wf.steps[3].type = "Scan"
    /\ wf.all_results[2] = Result("PIPELINE_FILTER", "Success",
                                  << <<"kept", "1", "rejected", "1">> >>)
    /\ Len(wf.active_files) = 2

\* the entries an iteration of a running Evolve step may append: nothing
\* but the completion entry when it finds no issue, else the results of its
\* repair, if it repairs, and then its summary
EvolveAppends ==
    LET n == Len(Appended) IN
    \/ n = 0
    \/ n = 1 /\ Appended[1].path = "EVOLVE_COMPLETE"
    \/ /\ Appended[n].path \in IterPaths
       /\ SubSeq(Appended, 1, n - 1) =
             IF wf.evolve.is_dry THEN <<>>
             ELSE ultra_repair(files, wf.config, wf.active_files).results

\* C32: the result log is append-only: the log after a step has the log
\* before it as a prefix; a Scan and a Filter append exactly one summary
\* entry each; an Evolve step appends its repair results, its iteration
\* summaries and its completion entry and not the per-file results of its
\* analysis
C32_LogAppendOnly ==
    [][WorkflowSteps =>
          /\ Len(wf'.all_results) >= Len(wf.all_results)
          /\ SubSeq(wf'.all_results, 1, Len(wf.all_results)) = wf.all_results
          /\ At("Scan") => Len(Appended) = 1 /\ Appended[1].path = "PIPELINE_SCAN"
          /\ At("Filter") => Len(Appended) = 1 /\ Appended[1].path = "PIPELINE_FILTER"
          /\ At("Evolve") => Appended = <<>>
          /\ wf.evolve.active => EvolveAppends]_vars

\* an Evolve step that repairs has appended the result of its repair of
\* the one active file and the summary of its iteration behind the entries
\* of a Scan and a Filter
C32_Witness ==
    /\ wf.status = "running"
    /\ wf.evolve.active
    /\ wf.evolve.repairs = 1
    /\ Len(wf.all_results) = 4
    /\ wf.all_results[1].path = "PIPELINE_SCAN"
    /\ wf.all_results[2].path = "PIPELINE_FILTER"
    /\ wf.all_results[3].path \in Paths
    /\ wf.all_results[4].path = IterPath(1)

-----------------------------------------------------------------------------
(* Properties of the analyzer's read and of the workflow's scan *)

\* a buffered full read of the file gives its bytes: the file can be opened
\* and read, mapped or not, valid text or not
CanReadAtAll(file) == file.kind \in {"text", "binary", "nomap"}

\* C33: analyze_file on an existing file returns a FileAnalysis also when
\* the file cannot be mapped or its bytes are not valid text, by a buffered
\* full read; it fails only when the file cannot be read at all
C33_FallsBackToBufferedRead ==
    (ret.fn = "analyze_file" /\ call.exists) => (ret.ok <=> CanReadAtAll(call.file))

\* the Scan step of the workflow, the first of its steps, is over
ScanStepOver == wf.status # "none" /\ (wf.pc > 1 \/ wf.status = "failed")

\* C34: the Scan step yields the files that scan_files(path, extension,
\* use_gitignore = true, include_hidden = false) yields on the same tree:
\* no file that the ignore rules exclude and no hidden entry is among the
\* active files, and a path that is not a directory is rejected as
\* scan_files rejects it
C34_ScanStepIsScanFiles ==
    ScanStepOver =>
        LET root == wf.steps[1].path
            extension == CHOOSE e \in wf.steps[1].extension : TRUE
            valid == Exists(files, root) /\ IsDir(files, root)
        IN /\ wf.status = "failed" <=> ~valid
           /\ valid => Range(wf.active_files) = Scanned(files, extension, TRUE, FALSE)

(* analyze_file step by step, on two threads, beside a writer of the file *)

\* the newest modification timestamp a file is given
MaxStamp == 3

\* a call of analyze_file on a thread: where it is, the timestamp it read,
\* the content it mapped, what it returned and whether through the cache;
\* at_stat and at_check remember what the file held when the call read the
\* timestamp and when it compared it with the cached one
Analyzer(pc) ==
    [pc |-> pc, modified |-> 0, content |-> <<>>, hit |-> FALSE, value |-> {},
     at_stat |-> <<>>, at_check |-> <<>>]

\* `if !file_path.exists()` passes: the call goes on to read the metadata
RaceBegin(i) ==
    /\ api = "analyze_race"
    /\ workers[i].pc = "idle"
    /\ Exists(files, "a.rs")
    /\ workers' = [workers EXCEPT ![i].pc = "stat"]
    /\ UNCHANGED <<api, files, engine, call, ret, cache, hist, wf>>

\* `fs::metadata(file_path)?.modified()?`
RaceStat(i) ==
    /\ api = "analyze_race"
    /\ workers[i].pc = "stat"
    /\ workers' = [workers EXCEPT ![i].pc = "check",
                                  ![i].modified = files["a.rs"].mtime,
                                  ![i].at_stat = files["a.rs"].content]
    /\ UNCHANGED <<api, files, engine, call, ret, cache, hist, wf>>

\* `ANALYSIS_CACHE.get(&path_key)` and `entry.0 == modified`: a hit returns
\* the cached analysis, a miss goes on to open the file
RaceCheck(i) ==
    /\ api = "analyze_race"
    /\ workers[i].pc = "check"
    /\ workers' =
          IF CacheHit(cache, "a.rs", workers[i].modified)
          THEN [workers EXCEPT
                   ![i].pc = "done", ![i].hit = TRUE,
                   ![i].value = {(CHOOSE e \in cache["a.rs"] : TRUE).value},
                   ![i].at_check = files["a.rs"].content]
          ELSE [workers EXCEPT ![i].pc = "read"]
    /\ UNCHANGED <<api, files, engine, call, ret, cache, hist, wf>>

\* `File::open`, `Mmap::map`, `String::from_utf8_lossy(&mmap)`: the content
\* the file holds now
RaceRead(i) ==
    /\ api = "analyze_race"
    /\ workers[i].pc = "read"
    /\ CanMap(files, "a.rs")
    /\ workers' = [workers EXCEPT ![i].pc = "insert",
                                  ![i].content = files["a.rs"].content]
    /\ UNCHANGED <<api, files, engine, call, ret, cache, hist, wf>>

\* `ANALYSIS_CACHE.insert(path_key, (modified, result.clone()))` and the
\* return of the result
RaceInsert(i) ==
    /\ api = "analyze_race"
    /\ workers[i].pc = "insert"
    /\ \E result \in {Analysis("a.rs", workers[i].content)} :
          /\ cache' = Insert(cache, "a.rs", Entry(workers[i].modified, result))
          /\ workers' = [workers EXCEPT ![i].pc = "done", ![i].value = {result}]
    /\ UNCHANGED <<api, files, engine, call, ret, hist, wf>>

\* the file's owner writes a new content; the modification timestamp grows
RaceWrite(c) ==
    /\ api = "analyze_race"
    /\ Exists(files, "a.rs")
    /\ files["a.rs"].mtime < MaxStamp
    /\ c # files["a.rs"].content
    /\ files' = [files EXCEPT !["a.rs"].content = c, !["a.rs"].mtime = @ + 1]
    /\ UNCHANGED <<api, engine, call, workers, ret, cache, hist, wf>>

InitRace ==
    /\ api = "analyze_race"
    /\ files = [p \in Paths |-> IF p = "a.rs" THEN TextFile(<<TokX, NL>>, 1) ELSE NoFile]
    /\ engine = NewEngine(DefaultConfig)
    /\ call = NoCall
    /\ workers = <<Analyzer("idle"), Analyzer("idle")>>
    /\ ret = NoRet
    /\ cache = EmptyCache
    /\ hist = NoHistory(files)
    /\ wf = NoWorkflow

NextRace ==
    \/ \E i \in 1..Len(workers) : RaceBegin(i)
    \/ \E i \in 1..Len(workers) : RaceStat(i)
    \/ \E i \in 1..Len(workers) : RaceCheck(i)
    \/ \E i \in 1..Len(workers) : RaceRead(i)
    \/ \E i \in 1..Len(workers) : RaceInsert(i)
    \/ \E c \in CacheTexts : RaceWrite(c)

SpecRace == InitRace /\ [][NextRace]_vars

(* Properties of the analyzer's cache under concurrent calls and writes *)

\* the calls that have returned through a cache hit
HitCalls == {i \in 1..Len(workers) : workers[i].pc = "done" /\ workers[i].hit}

\* C35: whatever the interleaving of analyzer calls with writes that each
\* raise the file's modification timestamp, a call that returns through a
\* cache hit returns the analysis of the content the file holds at the moment
\* of its timestamp check, be that moment the read of the file's timestamp
\* or the comparison with the cached one
C35_HitIsOfCheckedContent ==
    api = "analyze_race" =>
        \A i \in HitCalls :
            workers[i].value \subseteq {Analysis("a.rs", workers[i].at_stat),
                                        Analysis("a.rs", workers[i].at_check)}

(* Properties of ultra_edit: two changes of one path, and the dry run *)

\* the content ops1 then ops2 leave of a content
OneAfterTheOther(content, ops1, ops2) ==
    apply_ops([content |-> apply_ops([content |-> content, applied |-> 0], ops1).content,
               applied |-> 0], ops2).content

\* C36: when a batch of ultra_edit that is not a dry run holds two changes of
\* the same path and both are reported as Success, the file ends with the
\* content the two changes leave when applied one after the other, in one
\* order or the other
C36_TwoChangesOfOnePath ==
    (/\ api = "ultra_edit"
     /\ ret.fn = "ultra_edit"
     /\ ~call.dry_run
     /\ Len(call.changes) = 2
     /\ call.changes[1].path = call.changes[2].path
     /\ \A i \in 1..2 : ret.results[i].status = "Success")
    => LET p == call.changes[1].path
           before == call.files0[p].content
       IN files[p].content \in
             {OneAfterTheOther(before, call.changes[1].operations, call.changes[2].operations),
              OneAfterTheOther(before, call.changes[2].operations, call.changes[1].operations)}

\* C37: a dry run of ultra_edit leaves the filesystem as the call found it,
\* also for a change whose path does not exist: nothing is created and
\* nothing is written
C37_DryRunCreatesNothing ==
    (api = "ultra_edit" /\ call.fn = "ultra_edit" /\ call.dry_run) => files = call.files0

(* process_files called again and again on one engine *)

\* the calls made so far on the engine
Round == IF call = NoCall THEN 0 ELSE call.round

\* `engine.process_files(paths, operation)` on the engine of the calls before
ProcessOnEngine(paths, op) ==
    /\ api = "engine"
    /\ Round < MaxCalls
    /\ OpMatters(engine.config, paths, op)
    /\ \E r \in {process_files(files, engine, op, paths)} :
          /\ engine' = r.engine
          /\ ret' = [fn |-> "process_files", ok |-> TRUE, results |-> r.results,
                     stats |-> r.stats]
    /\ call' = [fn |-> "process_files", config |-> engine.config, paths |-> paths,
                op |-> op, round |-> Round + 1]
    /\ UNCHANGED <<cache, hist, wf, api, files, workers>>

InitEngine ==
    /\ api = "engine"
    /\ \E i \in 1..Len(BatchFileSamples), j \in 1..Len(BatchFileSamples) :
          /\ i <= j
          /\ files = [p \in Paths |-> IF p = "a.rs" THEN BatchFileSamples[i]
                                      ELSE BatchFileSamples[j]]
    /\ engine = NewEngine(DefaultConfig)
    /\ call = NoCall
    /\ workers = <<>>
    /\ ret = NoRet
    /\ cache = EmptyCache
    /\ hist = NoHistory(files)
    /\ wf = NoWorkflow

NextEngine ==
    \E paths \in SeqsOf(Paths, 0, MaxBase), op \in [Paths -> OpOutcomes] :
        ProcessOnEngine(paths, op)

SpecEngineCalls == InitEngine /\ [][NextEngine]_vars

(* Properties of the statistics of a batch *)

\* C39: whatever calls of process_files an engine has served, the
\* total_bytes of the stats a call returns is the number of bytes read in
\* that call, without the bytes of the batches before it
C39_BytesOfThisCallOnly ==
    (api = "engine" /\ ret.fn = "process_files")
        => ret.stats.total_bytes = BytesAdded(files, call.config, call.paths)

(* Properties of a dry run of the workflow *)

\* the request asks for a dry run, and every Evolve step of it is one too
DryWorkflow ==
    /\ api = "ultra_workflow"
    /\ wf.status = "running"
    /\ wf.dry_run = Some(TRUE)
    /\ \A i \in 1..Len(wf.steps) :
          wf.steps[i].type = "Evolve" => unwrap_or(wf.steps[i].dry_run, TRUE)

\* C38: no step of a workflow that runs with dry_run = true, its Evolve steps
\* being dry runs too, changes a file: Scan, Filter, Analyze, Edit, Repair and
\* Evolve leave the files as they are
C38_DryWorkflowWritesNothing == [][DryWorkflow => files' = files]_vars

====
